---- MODULE Spec2Model ----
(***************************************************************************)
(* A model of drink's Session (drink/src/session.rs), its Record, its     *)
(* transcoder registry and its mock registry, driven against a sandbox    *)
(* that answers every invocation nondeterministically.                    *)
(***************************************************************************)
EXTENDS Integers, Sequences, FiniteSets, TLC

\* ---------------------------------------------------------------- bounds

\* The number of operations of one behaviour.
MaxOps == 2

\* The number of salts taken in a row (SpecSalt).
MaxSalts == 257

\* The number of contract entries traced in one behaviour (SpecTrace).
MaxSpans == 1
\* The build_contract_crate calls of one behaviour.
MaxCalls == 3
\* The commands the CLI executor is given in one behaviour.
MaxCommands == 3

\* ---------------------------------------------------------------- domains

Accounts == {"alice", "bob"}
Addresses == {"A1", "A2"}
NoAddress == "none"
TranscoderIds == {"t1", "t2"}
NoTranscoderId == "none"
MockIds == {"m1", "m2"}
NoMock == "none"
GasLimits == {"gas_default", "gas_low"}
DEFAULT_STORAGE_DEPOSIT_LIMIT == 1000000
DepositLimits == {DEFAULT_STORAGE_DEPOSIT_LIMIT, 0}
\* The (name, arguments) pairs a caller may pass as a constructor or a message.
Requests == {<<"new", <<>>>>, <<"get", <<>>>>, <<"get", <<"x">>>>}
\* Raw payloads a contract may return.
Payloads == {<<>>, <<0>>, <<0, 7>>}
\* The result types a caller may ask a call to be decoded into.
ValueTypes == {"unit", "u8"}
\* The runtime events one sandbox invocation may append to the event log.
Emissions == {<<>>, <<"System", "ContractEmitted">>}

\* ---------------------------------------------------------------- state

VARIABLES
    actor,                  \* Session::actor
    origin,                 \* Session::origin
    gas_limit,              \* Session::gas_limit
    storage_deposit_limit,  \* Session::storage_deposit_limit
    transcoders,            \* Session::transcoders (address -> transcoder)
    record,                 \* Session::record
    mocks,                  \* Session::mocks (the shared MockRegistry)
    sandbox,                \* Session::sandbox, seen at its boundary
    salts,                  \* ghost: the salts MockRegistry::salt returned, in order
    deployed_mocks,         \* ghost: what each deploy_mock that returned was given and gave
    dispatched,             \* ghost: the latest message call the sandbox dispatched
    lock,                   \* who holds the Mutex around the MockRegistry
    pc,                     \* where control is within the operation under way
    spans,                  \* ghost: the call spans created and finalized, in order
    set_result,             \* ghost: what the latest setter was given and returned
    history,                \* ghost: one entry per recorded interaction
    last,                   \* ghost: the latest operation and how it ended
    ops,                    \* ghost: the number of operations so far
    CONTRACTS_BUILT,        \* test macro: manifest path -> (package name, bundle path)
    built_mutex,            \* test macro: the Mutex around CONTRACTS_BUILT
    builders,               \* test macro: where each thread is in build_contract_crate
    executions,             \* ghost: the calls of contract_build::execute, in order
    returns,                \* ghost: what build_contract_crate returned, per manifest path
    build_calls,            \* ghost: the number of build_contract_crate calls so far
    app_state,              \* CLI: the fields of AppState the executor writes
    cli_sandbox,            \* CLI: AppState::sandbox, seen at its boundary
    cli_last,               \* ghost: the latest command and what it did
    commands                \* ghost: the number of commands so far

session_vars == <<actor, origin, gas_limit, storage_deposit_limit, transcoders,
                  record, mocks, sandbox, salts, deployed_mocks, dispatched, lock, pc,
                  spans, set_result, history, last, ops>>
build_vars == <<CONTRACTS_BUILT, built_mutex, builders, executions, returns, build_calls>>
cli_vars == <<app_state, cli_sandbox, cli_last, commands>>

vars == <<session_vars, build_vars, cli_vars>>

\* ---------------------------------------------------------------- sandbox boundary

default_actor == "alice"
default_gas_limit == "gas_default"

convert_account_to_origin(account) == <<"Signed", account>>

map_account(sb, org) == [sb EXCEPT !.mapped = @ \cup {org[2]}]

\* The events of one invocation, stamped with the invocation that emitted them.
Stamp(kinds, id) == [i \in 1..Len(kinds) |-> [kind |-> kinds[i], by |-> id]]

FreeAddresses(sb) == {a \in Addresses : sb.code[a] = "none"}

OkResult(reverted, addr, data) ==
    [tag |-> "Ok", reverted |-> reverted, addr |-> addr, data |-> data]
ErrResult == [tag |-> "Err", reverted |-> FALSE, addr |-> NoAddress, data |-> <<>>]

\* What deploy_contract may answer: a fresh address, a revert at the address the
\* contract would have had, a dispatch error.
DeployResults(sb) ==
    {OkResult(r, a, <<>>) : r \in BOOLEAN, a \in FreeAddresses(sb)} \cup {ErrResult}

\* What call_contract may answer: a payload, a revert with a payload, a dispatch error.
CallResults ==
    {OkResult(r, NoAddress, d) : r \in BOOLEAN, d \in Payloads} \cup {ErrResult}

UploadResults == {[tag |-> "Ok"], [tag |-> "Err"]}

did_revert(result) == result.tag = "Ok" /\ result.reverted

\* What an invocation that ends with `result` may emit: a dispatch error leaves
\* no event behind.
EmissionsOf(result) == IF result.tag = "Ok" THEN Emissions ELSE {<<>>}

\* The sandbox after one state-changing invocation that emitted `kinds`.
Invoked(sb, kinds) ==
    [sb EXCEPT !.invocations = @ + 1,
               !.events = @ \o Stamp(kinds, sb.invocations + 1)]

\* deploy_contract: the code lands at the address only when the result is a success.
deploy_contract(sb, code, result, kinds) ==
    LET sb1 == Invoked(sb, kinds) IN
    IF result.tag = "Ok" /\ ~result.reverted
    THEN [sb1 EXCEPT !.code[result.addr] = code]
    ELSE sb1

call_contract(sb, kinds) == Invoked(sb, kinds)

upload_contract(sb, kinds) == Invoked(sb, kinds)

\* ---------------------------------------------------------------- transcoder

\* The messages each transcoder's metadata declares, all without arguments.
Declared(t) == IF t = "t1" THEN {"new", "get"} ELSE {"new"}

Selector(name) == <<"sel", name>>

\* ContractMessageTranscoder::encode: fails on an unknown name or a wrong arity.
encode(t, name, args) ==
    IF name \in Declared(t) /\ Len(args) = 0
    THEN [ok |-> TRUE, data |-> <<Selector(name)>> \o args]
    ELSE [ok |-> FALSE, data |-> <<>>]

\* TranscoderRegistry
TranscoderRegistry_new == [a \in Addresses |-> NoTranscoderId]
\* A lookup that falls back to some transcoder when none is registered.
get_transcoder_or_any(reg, contract) ==
    IF reg[contract] = NoTranscoderId THEN "t1" ELSE reg[contract]

\* A registration that is made for every address.
register_everywhere(reg, contract, transcoder) == [a \in Addresses |-> transcoder]

\* A registration that is lost.
register_nothing(reg, contract, transcoder) == reg

register(reg, contract, transcoder) == [reg EXCEPT ![contract] = transcoder]
get_transcoder(reg, contract) == reg[contract]

\* ---------------------------------------------------------------- record

Record_default ==
    [deploy_results |-> <<>>, deploy_returns |-> <<>>,
     call_results |-> <<>>, call_returns |-> <<>>,
     event_batches |-> <<>>]

\* Pushes that lose entries: one batch per event, a result that replaces the
\* results, a result dropped when it is a revert.
push_event_batches_per_event(r, events) ==
    [r EXCEPT !.event_batches = @ \o [i \in 1..Len(events) |-> <<events[i]>>]]
push_deploy_result_replacing(r, result) == [r EXCEPT !.deploy_results = <<result>>]
push_call_result_unless_reverted(r, result) ==
    IF result.tag = "Ok" /\ result.reverted THEN r
    ELSE [r EXCEPT !.call_results = Append(@, result)]

push_deploy_result(r, result) == [r EXCEPT !.deploy_results = Append(@, result)]
push_deploy_return(r, address) == [r EXCEPT !.deploy_returns = Append(@, address)]
push_call_result(r, result) == [r EXCEPT !.call_results = Append(@, result)]
push_call_return(r, payload) == [r EXCEPT !.call_returns = Append(@, payload)]
push_event_batches(r, events) == [r EXCEPT !.event_batches = Append(@, events)]

Last(s) == s[Len(s)]

\* MessageResult<V>::decode: byte 0 is Ok and V follows, byte 1 is a LangError.
decode_message_result(V, raw) ==
    IF Len(raw) = 0 THEN [ok |-> FALSE, value |-> <<>>]
    ELSE IF raw[1] = 0
         THEN IF V = "unit" THEN [ok |-> TRUE, value |-> <<"Ok">>]
              ELSE IF Len(raw) >= 2 THEN [ok |-> TRUE, value |-> <<"Ok", raw[2]>>]
              ELSE [ok |-> FALSE, value |-> <<>>]
         ELSE IF raw[1] = 1 /\ Len(raw) >= 2 /\ raw[2] = 1
              THEN [ok |-> TRUE, value |-> <<"LangError">>]
              ELSE [ok |-> FALSE, value |-> <<>>]

last_call_return_decoded(r, V) == decode_message_result(V, Last(r.call_returns))

\* A slice::last that takes the first element.
slice_first(s) ==
    IF Len(s) = 0 THEN [some |-> FALSE, value |-> <<>>]
    ELSE [some |-> TRUE, value |-> <<s[1]>>]

\* slice::last, and Option::expect.
slice_last(s) ==
    IF Len(s) = 0 THEN [some |-> FALSE, value |-> <<>>]
    ELSE [some |-> TRUE, value |-> <<s[Len(s)]>>]

expect(opt) ==
    IF opt.some THEN [tag |-> "Ok", val |-> opt.value]
    ELSE [tag |-> "Panic", val |-> <<>>]

\* The last_* accessors of the Record, as their caller sees them.
Record_last_deploy_result(r) == expect(slice_last(r.deploy_results))
Record_last_deploy_return(r) == expect(slice_last(r.deploy_returns))
Record_last_call_result(r) == expect(slice_last(r.call_results))
Record_last_call_return(r) == expect(slice_last(r.call_returns))
Record_last_event_batch(r) == expect(slice_last(r.event_batches))

Record_last_call_return_decoded(r, V) ==
    LET raw == Record_last_call_return(r) IN
    IF raw.tag = "Panic" THEN raw
    ELSE [tag |-> "Ok", val |-> <<decode_message_result(V, raw.val[1])>>]

\* ---------------------------------------------------------------- mock registry

MockRegistry_new == [mocked_contracts |-> [a \in Addresses |-> NoMock], nonce |-> 0]

\* The largest value of the u8 nonce, and the length of a salt.
U8_MAX == 255
SaltLen == 32

\* n.to_le_bytes() of a u8: its one byte.
to_le_bytes(n) == <<n % (U8_MAX + 1)>>

\* MockRegistry::salt where `self.nonce += 1` wraps around (a build without overflow
\* checks): the nonce is incremented, then its bytes are copied to the start of a
\* zeroed salt.
salt(reg) ==
    LET n == (reg.nonce + 1) % (U8_MAX + 1)
        bytes == to_le_bytes(n)
    IN  [registry |-> [reg EXCEPT !.nonce = n],
         salt |-> [i \in 1..SaltLen |-> IF i <= Len(bytes) THEN bytes[i] ELSE 0]]

\* MockRegistry::salt where `self.nonce += 1` is checked (a build with overflow
\* checks): the increment panics when the nonce is at its largest value.
salt_overflows(reg) == reg.nonce + 1 > U8_MAX

mock_register(reg, address, mock) == [reg EXCEPT !.mocked_contracts[address] = mock]

\* A lookup that falls back to some registered mock.
mock_get_any(reg, address) ==
    IF reg.mocked_contracts[address] # NoMock THEN reg.mocked_contracts[address]
    ELSE IF \E a \in Addresses : reg.mocked_contracts[a] # NoMock
         THEN reg.mocked_contracts[CHOOSE a \in Addresses : reg.mocked_contracts[a] # NoMock]
         ELSE NoMock

\* MockRegistry::get
mock_get(reg, address) == reg.mocked_contracts[address]

\* ---------------------------------------------------------------- interception

\* ContractMock: the selectors a mock has a handler for, and the bytes each handler
\* returns for the input it is given.
MockSelectors(mock) ==
    IF mock = "m1" THEN {Selector("get")} ELSE {Selector("get"), Selector("new")}

MockOutput(mock, selector, data) ==
    IF selector = Selector("new") THEN <<1, 1>>
    ELSE IF mock = "m1" THEN (IF Len(data) = 0 THEN <<0, 7>> ELSE <<0, 8>>)
    ELSE <<0, 9>>

\* ContractMock::call: the handler's output, or no handler for the selector.
mock_call(mock, selector, data) ==
    IF selector \in MockSelectors(mock)
    THEN [ok |-> TRUE, data |-> MockOutput(mock, selector, data)]
    ELSE [ok |-> FALSE, data |-> <<>>]

\* H160::encode and its decoding.
encode_address(address) == <<"H160", address>>
decode_address(bytes) == bytes[2]

\* Option<ExecResult>, and its encoding: a tag byte, then the result.
Declined == [some |-> FALSE, result |-> ErrResult]
Intercepted(result) == [some |-> TRUE, result |-> result]
encode_option(opt) == IF opt.some THEN <<1, opt.result>> ELSE <<0>>
decode_option(bytes) == IF bytes[1] = 0 THEN Declined ELSE Intercepted(bytes[2])

\* An extension that holds a registry of its own.
extension_registry_own == MockRegistry_new

\* The registry the MockingExtension registered by Session::default looks into: a
\* clone of the Arc the session holds, hence the session's registry as it is now.
extension_registry == mocks

\* MockingExtension::intercept_call: declines when the address has no mock, else
\* routes the input by its selector to the mock's handler and answers its output,
\* or a failure when the mock has no handler for the selector.
MockingExtension_intercept_call(contract_address, is_call, input_data) ==
    LET mock == mock_get(extension_registry, decode_address(contract_address)) IN
    IF mock = NoMock THEN encode_option(Declined)
    ELSE LET out == mock_call(mock, Head(input_data), Tail(input_data)) IN
         IF out.ok
         THEN encode_option(Intercepted(OkResult(FALSE, NoAddress, out.data)))
         ELSE encode_option(Intercepted(ErrResult))

\* contract_call_debugger::intercept_call: the runtime interface, answered by the
\* registered extension.
contract_call_debugger_intercept_call(contract_address, is_call, input_data) ==
    [some |-> TRUE,
     bytes |-> MockingExtension_intercept_call(contract_address, is_call, input_data)]

\* A bridge that never intercepts.
intercept_call_never(contract_address, entry_point, input_data) == Declined

\* A bridge that lets the sandbox execute when the extension reports a failure.
intercept_call_declining_failures(contract_address, entry_point, input_data) ==
    LET r == contract_call_debugger_intercept_call(
                 encode_address(contract_address), entry_point = "Call", input_data)
        opt == decode_option(r.bytes)
    IN  IF ~r.some \/ (opt.some /\ opt.result.tag = "Err") THEN Declined ELSE opt

\* <DrinkDebug as CallInterceptor>::intercept_call: the bridge the sandbox calls at
\* every contract entry.
intercept_call(contract_address, entry_point, input_data) ==
    LET r == contract_call_debugger_intercept_call(
                 encode_address(contract_address), entry_point = "Call", input_data)
    IN  IF ~r.some THEN Declined ELSE decode_option(r.bytes)

\* What genuine execution of a message at `address` may answer: the dummy
\* contract's call body is `unreachable` and traps.
genuine_results(sb, address) ==
    IF sb.code[address] = "dummy" THEN {ErrResult} ELSE CallResults

\* The sandbox's dispatch of a message call: the bridge first, genuine execution
\* only when it declines.
call_outcomes(sb, address, input_data) ==
    LET i == intercept_call(address, "Call", input_data) IN
    IF i.some THEN {[result |-> i.result, executed |-> FALSE]}
    ELSE {[result |-> r, executed |-> TRUE] : r \in genuine_results(sb, address)}

\* Control is at the caller of the session, no operation under way.
Idle == [at |-> "idle", op |-> "none", mock |-> NoMock, address |-> NoAddress,
         input |-> <<>>]

NoReturn == [arg |-> <<>>, ret |-> <<>>]

NoDispatch ==
    [address |-> NoAddress, input |-> <<>>, result |-> ErrResult, executed |-> FALSE]

Dispatched(address, input_data, outcome) ==
    [address |-> address, input |-> input_data, result |-> outcome.result,
     executed |-> outcome.executed]

\* ---------------------------------------------------------------- test macro: data

\* The threads of the process that expand a test.
Threads == {"th1", "th2"}
ManifestPaths == {"flipper/Cargo.toml", "adder/Cargo.toml"}
\* The packages a caller may pass: the package's name is that of its manifest.
FeaturedPackages ==
    {[package |-> [manifest_path |-> "flipper/Cargo.toml", name |-> "flipper"],
      features_on |-> <<>>],
     [package |-> [manifest_path |-> "flipper/Cargo.toml", name |-> "flipper"],
      features_on |-> <<"unstable">>],
     [package |-> [manifest_path |-> "adder/Cargo.toml", name |-> "adder"],
      features_on |-> <<>>]}
NoPackage == [package |-> [manifest_path |-> "", name |-> ""], features_on |-> <<>>]
\* Where contract_build::execute may say the bundle is.
BundlePaths == {"target/ink/release.contract", "target/ink/other.contract"}
\* What contract_build::execute may answer: an error, or a result with or
\* without the metadata result.
ExecuteResults ==
    {[tag |-> "Err", metadata_result |-> <<>>], [tag |-> "Ok", metadata_result |-> <<>>]}
    \cup {[tag |-> "Ok", metadata_result |-> <<[dest_bundle |-> b]>>] : b \in BundlePaths}
NoResult == [tag |-> "none", metadata_result |-> <<>>]

NoEntry == <<>>
\* HashMap::new(): no manifest path has an entry.
HashMap_new == [m \in ManifestPaths |-> NoEntry]
\* Mutex::new: free and not poisoned.
Mutex_new == [holder |-> "free", poisoned |-> FALSE]
NotBuilding == [at |-> "idle", pkg |-> NoPackage, result |-> NoResult]

\* ---------------------------------------------------------------- CLI: data

\* What find_wasm_blob, fs::read and ContractMessageTranscoder::load may find in
\* the working directory: the name of a .wasm file if there is one, whether it
\* can be read, and whether its metadata can be loaded.
Directories ==
    [blob : {<<>>, <<"flipper">>, <<"adder">>}, readable : BOOLEAN, metadata : BOOLEAN]
\* The messages a call command may name.
Messages == {"get", "flip"}
\* No contract, no contract deployed, the first index current.
AppState_new ==
    [contracts |-> <<>>,
     chain_info |-> [deployed_contracts |-> 0],
     ui_state |-> [current_contract |-> 0, contract_project_name |-> ""]]
NoCommand ==
    [command |-> "none", outcome |-> "none", invoked |-> FALSE, printed |-> <<>>,
     deployed |-> 0]

\* ---------------------------------------------------------------- session: construction

Init ==
    /\ actor = default_actor
    /\ origin = convert_account_to_origin(default_actor)
    /\ gas_limit = default_gas_limit
    /\ storage_deposit_limit = DEFAULT_STORAGE_DEPOSIT_LIMIT
    /\ transcoders = TranscoderRegistry_new
    /\ record = Record_default
    /\ mocks = MockRegistry_new
    /\ sandbox = map_account(
            [events |-> <<>>, mapped |-> {}, invocations |-> 0,
             code |-> [a \in Addresses |-> "none"]],
            convert_account_to_origin(default_actor))
    /\ salts = <<>>
    /\ deployed_mocks = <<>>
    /\ dispatched = NoDispatch
    /\ lock = "free"
    /\ pc = Idle
    /\ spans = <<>>
    /\ set_result = NoReturn
    /\ history = <<>>
    /\ last = [op |-> "default", tag |-> "Ok"]
    /\ ops = 0
    /\ CONTRACTS_BUILT = HashMap_new
    /\ built_mutex = Mutex_new
    /\ builders = [th \in Threads |-> NotBuilding]
    /\ executions = <<>>
    /\ returns = {}
    /\ build_calls = 0
    /\ app_state = AppState_new
    /\ cli_sandbox = {}
    /\ cli_last = NoCommand
    /\ commands = 0

\* One more operation, `op`, has ended with `tag`. Every action is enabled only
\* while ops < MaxOps. The operations of the session are taken as a whole here:
\* control is back at the caller and the lock is as it was.
Ended(op, tag) == last' = [op |-> op, tag |-> tag] /\ ops' = ops + 1

Done(op, tag) ==
    /\ Ended(op, tag)
    /\ set_result' = NoReturn
    /\ UNCHANGED <<lock, pc, spans,
                   build_vars, cli_vars>>

\* A setter has ended: it was given `arg` and returned `ret`.
DoneReturning(op, arg, ret) ==
    /\ Ended(op, "Ok")
    /\ set_result' = [arg |-> <<arg>>, ret |-> <<ret>>]
    /\ UNCHANGED <<lock, pc, spans,
                   build_vars, cli_vars>>


\* ---------------------------------------------------------------- session: actor and budgets

\* with_actor: `Self { actor, ..self }`.
with_actor(a) ==
    [actor |-> a, origin |-> origin, sandbox |-> sandbox]

\* set_actor: after mem::replace the local `actor` is the previous actor; the origin
\* is derived from that local, mapped, and stored; the previous actor is returned.
set_actor(a) ==
    LET old == actor
        org == convert_account_to_origin(old)
    IN  [ret |-> old, actor |-> a, origin |-> org, sandbox |-> map_account(sandbox, org)]

WithActor ==
    /\ ops < MaxOps
    /\ UNCHANGED <<salts, deployed_mocks, dispatched>>
    /\ \E a \in Accounts :
        LET out == with_actor(a) IN
        /\ actor' = out.actor
        /\ origin' = out.origin
        /\ sandbox' = out.sandbox
    /\ Done("with_actor", "Ok")
    /\ UNCHANGED <<gas_limit, storage_deposit_limit, transcoders, record, mocks, history>>

SetActor ==
    /\ ops < MaxOps
    /\ UNCHANGED <<salts, deployed_mocks, dispatched>>
    /\ \E a \in Accounts :
        LET out == set_actor(a) IN
        /\ actor' = out.actor
        /\ origin' = out.origin
        /\ sandbox' = out.sandbox
        /\ DoneReturning("set_actor", a, out.ret)
    /\ UNCHANGED <<gas_limit, storage_deposit_limit, transcoders, record, mocks, history>>

get_actor == actor
get_gas_limit == gas_limit
get_storage_deposit_limit == storage_deposit_limit

\* with_gas_limit: `Self { gas_limit, ..self }`.
with_gas_limit(g) == [gas_limit |-> g]

\* A setter that returns the limit it was given.
set_gas_limit_returning_new(g) == [ret |-> g, gas_limit |-> g]

\* with_gas_limit and set_gas_limit (the latter returns the previous limit).
set_gas_limit(g) == [ret |-> gas_limit, gas_limit |-> g]

WithGasLimit ==
    /\ ops < MaxOps
    /\ UNCHANGED <<salts, deployed_mocks, dispatched>>
    /\ \E g \in GasLimits : gas_limit' = with_gas_limit(g).gas_limit
    /\ Done("with_gas_limit", "Ok")
    /\ UNCHANGED <<actor, origin, storage_deposit_limit, transcoders, record, mocks,
                   sandbox, history>>

SetGasLimit ==
    /\ ops < MaxOps
    /\ UNCHANGED <<salts, deployed_mocks, dispatched>>
    /\ \E g \in GasLimits :
        LET out == set_gas_limit(g) IN
        /\ gas_limit' = out.gas_limit
        /\ DoneReturning("set_gas_limit", g, out.ret)
    /\ UNCHANGED <<actor, origin, storage_deposit_limit, transcoders, record, mocks,
                   sandbox, history>>

\* with_storage_deposit_limit and set_storage_deposit_limit.
with_storage_deposit_limit(d) == [storage_deposit_limit |-> d]

set_storage_deposit_limit(d) ==
    [ret |-> storage_deposit_limit, storage_deposit_limit |-> d]

WithStorageDepositLimit ==
    /\ ops < MaxOps
    /\ UNCHANGED <<salts, deployed_mocks, dispatched>>
    /\ \E d \in DepositLimits :
        storage_deposit_limit' = with_storage_deposit_limit(d).storage_deposit_limit
    /\ Done("with_storage_deposit_limit", "Ok")
    /\ UNCHANGED <<actor, origin, gas_limit, transcoders, record, mocks, sandbox, history>>

SetStorageDepositLimit ==
    /\ ops < MaxOps
    /\ UNCHANGED <<salts, deployed_mocks, dispatched>>
    /\ \E d \in DepositLimits :
        LET out == set_storage_deposit_limit(d) IN
        /\ storage_deposit_limit' = out.storage_deposit_limit
        /\ DoneReturning("set_storage_deposit_limit", d, out.ret)
    /\ UNCHANGED <<actor, origin, gas_limit, transcoders, record, mocks, sandbox, history>>

\* set_transcoder, and with_transcoder which calls it.
SetTranscoder ==
    /\ ops < MaxOps
    /\ UNCHANGED <<salts, deployed_mocks, dispatched>>
    /\ \E a \in Addresses, t \in TranscoderIds :
        /\ transcoders' = register(transcoders, a, t)
        /\ DoneReturning("set_transcoder", <<a, t>>, "unit")
    /\ UNCHANGED <<actor, origin, gas_limit, storage_deposit_limit, record, mocks,
                   sandbox, history>>

\* ---------------------------------------------------------------- session: deploy

Ret(tag, val) == [tag |-> tag, val |-> val]

NoInvocation ==
    [fn |-> "none", address |-> NoAddress, data |-> <<>>, origin |-> <<>>,
     gas_limit |-> "none", deposit_limit |-> 0]

Invocation(fn, address, data, org) ==
    [fn |-> fn, address |-> address, data |-> data, origin |-> org,
     gas_limit |-> gas_limit, deposit_limit |-> storage_deposit_limit]

\* A slice that forgets the snapshot and takes the whole log.
events_since_start_of_log(sb, start) == sb.events

\* record_events: the slice of the event log from the length snapshotted before.
events_since(sb, start) == SubSeq(sb.events, start + 1, Len(sb.events))

record_events(rec, before, after) ==
    push_event_batches(rec, events_since(after, Len(before.events)))

\* A deploy that takes a reverted instantiation for a success.
classify_deploy_ignoring_revert(result) ==
    IF result.tag = "Ok" THEN "Ok" ELSE "DeploymentFailed"

\* The match on `result.result` in deploy.
classify_deploy(result) ==
    IF result.tag = "Ok" /\ did_revert(result) THEN "DeploymentReverted"
    ELSE IF result.tag = "Ok" THEN "Ok"
    ELSE "DeploymentFailed"

\* A deployment handed to the sandbox under the stored origin.
deploy_invocation_under_stored_origin(constructor, args, transcoder) ==
    Invocation("deploy_contract", NoAddress,
               encode(transcoder, constructor, args).data, origin)

\* What deploy hands to deploy_contract once the constructor is encoded: it depends
\* on nothing the sandbox answers.
deploy_invocation(constructor, args, transcoder) ==
    Invocation("deploy_contract", NoAddress,
               encode(transcoder, constructor, args).data,
               convert_account_to_origin(actor))

\* Session::deploy, given what the sandbox answers (`result`) and emits (`kinds`).
deploy(constructor, args, transcoder, result, kinds) ==
    LET enc == encode(transcoder, constructor, args)
        sb1 == deploy_contract(sandbox, "contract", result, kinds)
        rec1 == record_events(record, sandbox, sb1)
        class == classify_deploy(result)
    IN  IF ~enc.ok
        THEN [ret |-> Ret("Encoding", <<>>), record |-> record,
              transcoders |-> transcoders, sandbox |-> sandbox,
              invocation |-> NoInvocation]
        ELSE [ret |-> IF class = "Ok" THEN Ret("Ok", <<result.addr>>)
                      ELSE Ret(class, <<>>),
              record |-> IF class = "Ok"
                         THEN push_deploy_result(
                                  push_deploy_return(rec1, result.addr), result)
                         ELSE push_deploy_result(rec1, result),
              transcoders |-> IF class = "Ok"
                              THEN register(transcoders, result.addr, transcoder)
                              ELSE transcoders,
              sandbox |-> sb1,
              invocation |-> deploy_invocation(constructor, args, transcoder)]

\* The ghost entry of an interaction that went from sandbox `before` to `after`:
\* `arg` is the transcoder handed to a deploy or the address handed to a call
\* (NoAddress for none), `target` the address the sandbox was asked to call, `as`
\* the origin and the budgets the sandbox was invoked with.
Interaction(op, arg, inv, before, after, result) ==
    [op |-> op, arg |-> arg, target |-> inv.address, id |-> after.invocations,
     pre |-> Len(before.events), post |-> Len(after.events), result |-> result,
     as |-> [origin |-> inv.origin, gas_limit |-> inv.gas_limit,
             deposit_limit |-> inv.deposit_limit]]

Deploy ==
    /\ ops < MaxOps
    /\ UNCHANGED <<salts, deployed_mocks, dispatched>>
    /\ \E rq \in Requests, t \in TranscoderIds :
        IF ~encode(t, rq[1], rq[2]).ok
        THEN LET out == deploy(rq[1], rq[2], t, ErrResult, <<>>) IN
             /\ UNCHANGED <<record, transcoders, sandbox, history>>
             /\ Done("deploy", out.ret.tag)
        ELSE \E result \in DeployResults(sandbox) : \E kinds \in EmissionsOf(result) :
             LET out == deploy(rq[1], rq[2], t, result, kinds) IN
             /\ record' = out.record
             /\ transcoders' = out.transcoders
             /\ sandbox' = out.sandbox
             /\ history' = Append(history,
                                  Interaction("deploy", t, out.invocation, sandbox,
                                              out.sandbox, result))
             /\ Done("deploy", out.ret.tag)
    /\ UNCHANGED <<actor, origin, gas_limit, storage_deposit_limit, mocks>>

\* Sandbox::dry_run: runs the invocation and restores the state it started from.
dry_run(sb, after) == sb

\* A preview that goes through the recording path of deploy.
dry_run_deployment_recording(constructor, args, transcoder, result) ==
    LET out == deploy(constructor, args, transcoder, result, <<>>) IN
    [out EXCEPT !.ret = IF out.ret.tag = "Encoding" THEN out.ret
                        ELSE Ret("Ok", <<result>>),
                !.sandbox = sandbox]

\* dry_run_deployment: encodes with the bundle's transcoder and previews the
\* deployment under the stored origin; the sandbox keeps nothing of it.
dry_run_deployment(constructor, args, transcoder, result) ==
    LET enc == encode(transcoder, constructor, args) IN
    IF ~enc.ok
    THEN [ret |-> Ret("Encoding", <<>>), record |-> record,
          transcoders |-> transcoders, sandbox |-> sandbox,
          invocation |-> NoInvocation]
    ELSE [ret |-> Ret("Ok", <<result>>), record |-> record,
          transcoders |-> transcoders,
          sandbox |-> dry_run(sandbox, deploy_contract(sandbox, "contract", result, <<>>)),
          invocation |-> Invocation("deploy_contract", NoAddress, enc.data, origin)]

DryRunDeployment ==
    /\ ops < MaxOps
    /\ UNCHANGED <<salts, deployed_mocks, dispatched>>
    /\ \E rq \in Requests, t \in TranscoderIds, result \in DeployResults(sandbox) :
        LET out == dry_run_deployment(rq[1], rq[2], t, result) IN
        /\ record' = out.record
        /\ transcoders' = out.transcoders
        /\ sandbox' = out.sandbox
        /\ Done("dry_run_deployment", out.ret.tag)
    /\ UNCHANGED <<actor, origin, gas_limit, storage_deposit_limit, mocks, history>>

\* ---------------------------------------------------------------- session: upload

\* Session::upload, under the stored origin and the deposit limit.
upload(result, kinds) ==
    [ret |-> IF result.tag = "Ok" THEN Ret("Ok", <<"code_hash">>)
             ELSE Ret("UploadFailed", <<>>),
     sandbox |-> upload_contract(sandbox, kinds),
     invocation |-> Invocation("upload_contract", NoAddress, <<>>, origin)]

Upload ==
    /\ ops < MaxOps
    /\ UNCHANGED <<salts, deployed_mocks, dispatched>>
    /\ \E result \in UploadResults : \E kinds \in EmissionsOf(result) :
        LET out == upload(result, kinds) IN
        /\ sandbox' = out.sandbox
        /\ Done("upload", out.ret.tag)
    /\ UNCHANGED <<actor, origin, gas_limit, storage_deposit_limit, transcoders, record,
                   mocks, history>>

\* ---------------------------------------------------------------- session: call

\* A target resolution that takes the first address deployed.
call_target_first_deployed(address) ==
    IF address # NoAddress THEN address
    ELSE IF Len(record.deploy_returns) = 0 THEN NoAddress
    ELSE record.deploy_returns[1]

\* The target of a call: the address given, or the last address deployed.
call_target(address) ==
    IF address # NoAddress THEN address
    ELSE IF Len(record.deploy_returns) = 0 THEN NoAddress
    ELSE Last(record.deploy_returns)

\* A call that takes a reverted execution for a success.
classify_call_ignoring_revert(result) ==
    IF result.tag = "Ok" THEN "Ok" ELSE "CallFailed"

\* The match on `result.result` in call_internal.
classify_call(result) ==
    IF result.tag = "Ok" /\ did_revert(result) THEN "CallReverted"
    ELSE IF result.tag = "Ok" THEN "Ok"
    ELSE "CallFailed"

\* A pre-check that looks for the transcoder before it looks at the target.
call_precheck_transcoder_first(address, message, args) ==
    LET target == call_target(address) IN
    IF target = NoAddress \/ get_transcoder(transcoders, target) = NoTranscoderId
    THEN "NoTranscoder"
    ELSE IF ~encode(get_transcoder(transcoders, target), message, args).ok THEN "Encoding"
    ELSE ""

\* How a call ends before it reaches the sandbox, or "" when it reaches it.
call_precheck(address, message, args) ==
    LET target == call_target(address) IN
    IF target = NoAddress THEN "NoContract"
    ELSE IF get_transcoder(transcoders, target) = NoTranscoderId THEN "NoTranscoder"
    ELSE IF ~encode(get_transcoder(transcoders, target), message, args).ok THEN "Encoding"
    ELSE ""

\* What call_internal hands to call_contract once the target, its transcoder and the
\* encoded message are there: it depends on nothing the sandbox answers.
call_invocation(address, message, args) ==
    LET target == call_target(address)
        enc == encode(get_transcoder(transcoders, target), message, args)
    IN  Invocation("call_contract", target, enc.data, convert_account_to_origin(actor))

\* A call that keeps the payload out of call_returns when it cannot be decoded.
call_internal_recording_decodable(address, message, args, V, result, kinds) ==
    LET pre == call_precheck(address, message, args)
        sb1 == call_contract(sandbox, kinds)
        rec1 == record_events(record, sandbox, sb1)
        class == classify_call(result)
        dec == decode_message_result(V, result.data)
    IN  IF pre # ""
        THEN [ret |-> Ret(pre, <<>>), record |-> record, sandbox |-> sandbox,
              invocation |-> NoInvocation]
        ELSE [ret |-> IF class = "CallReverted" THEN Ret("CallReverted", result.data)
                      ELSE IF class = "CallFailed" THEN Ret("CallFailed", <<>>)
                      ELSE IF dec.ok THEN Ret("Ok", dec.value)
                      ELSE Ret("Decoding", <<>>),
              record |-> IF class = "Ok" /\ dec.ok
                         THEN push_call_result(push_call_return(rec1, result.data), result)
                         ELSE push_call_result(rec1, result),
              sandbox |-> sb1,
              invocation |-> call_invocation(address, message, args)]

\* Session::call_internal::<_, V>, given what the sandbox answers and emits.
call_internal(address, message, args, V, result, kinds) ==
    LET pre == call_precheck(address, message, args)
        sb1 == call_contract(sandbox, kinds)
        rec1 == record_events(record, sandbox, sb1)
        class == classify_call(result)
        rec2 == push_call_return(rec1, result.data)
        dec == last_call_return_decoded(rec2, V)
    IN  IF pre # ""
        THEN [ret |-> Ret(pre, <<>>), record |-> record, sandbox |-> sandbox,
              invocation |-> NoInvocation]
        ELSE [ret |-> IF class = "CallReverted" THEN Ret("CallReverted", result.data)
                      ELSE IF class = "CallFailed" THEN Ret("CallFailed", <<>>)
                      ELSE IF dec.ok THEN Ret("Ok", dec.value)
                      ELSE Ret("Decoding", <<>>),
              record |-> IF class = "Ok" THEN push_call_result(rec2, result)
                         ELSE push_call_result(rec1, result),
              sandbox |-> sb1,
              invocation |-> call_invocation(address, message, args)]

\* call, call_and, call_with_address and call_with_address_and.
Call ==
    /\ ops < MaxOps
    /\ UNCHANGED <<salts, deployed_mocks>>
    /\ \E address \in Addresses \cup {NoAddress}, rq \in Requests :
        IF call_precheck(address, rq[1], rq[2]) # ""
        THEN LET out == call_internal(address, rq[1], rq[2], "unit", ErrResult, <<>>) IN
             /\ UNCHANGED <<record, sandbox, dispatched, history>>
             /\ Done("call", out.ret.tag)
        ELSE LET inv == call_invocation(address, rq[1], rq[2]) IN
             \E V \in ValueTypes, o \in call_outcomes(sandbox, inv.address, inv.data) :
             \E kinds \in EmissionsOf(o.result) :
             LET out == call_internal(address, rq[1], rq[2], V, o.result, kinds) IN
             /\ record' = out.record
             /\ sandbox' = out.sandbox
             /\ dispatched' = Dispatched(inv.address, inv.data, o)
             /\ history' = Append(history,
                                  Interaction("call", address, out.invocation, sandbox,
                                              out.sandbox, o.result))
             /\ Done("call", out.ret.tag)
    /\ UNCHANGED <<actor, origin, gas_limit, storage_deposit_limit, transcoders, mocks>>

\* SessionError::decode_revert::<Result<(), E>> and the two expects after it, for
\* the error `ret` a call ended with: a revert's payload is decoded, any other
\* error is handed back.
decode_revert(ret) ==
    LET raw == ret.val IN
    IF ret.tag # "CallReverted" THEN ret
    ELSE IF Len(raw) >= 2 /\ raw[1] = 0 /\ raw[2] = 1 THEN Ret("Ok", <<"E">>)
    ELSE IF (Len(raw) >= 2 /\ raw[1] = 0 /\ raw[2] = 0) \/ (Len(raw) >= 1 /\ raw[1] = 1)
         THEN Ret("Panic", <<>>)
    ELSE Ret("Decoding", <<>>)

\* call_and_expect_error: a call of the last deployed contract that is expected to
\* fail; `expect_err("Call should fail")` aborts when it does not.
call_and_expect_error(message, args, result, kinds) ==
    LET out == call_internal(NoAddress, message, args, "result", result, kinds) IN
    [out EXCEPT !.ret = IF out.ret.tag = "Ok" THEN Ret("Panic", <<>>)
                        ELSE decode_revert(out.ret)]

CallAndExpectError ==
    /\ ops < MaxOps
    /\ UNCHANGED <<salts, deployed_mocks>>
    /\ \E rq \in Requests :
        IF call_precheck(NoAddress, rq[1], rq[2]) # ""
        THEN LET out == call_and_expect_error(rq[1], rq[2], ErrResult, <<>>) IN
             /\ UNCHANGED <<record, sandbox, dispatched, history>>
             /\ Done("call_and_expect_error", out.ret.tag)
        ELSE LET inv == call_invocation(NoAddress, rq[1], rq[2]) IN
             \E o \in call_outcomes(sandbox, inv.address, inv.data) :
             \E kinds \in EmissionsOf(o.result) :
             LET out == call_and_expect_error(rq[1], rq[2], o.result, kinds) IN
             /\ record' = out.record
             /\ sandbox' = out.sandbox
             /\ dispatched' = Dispatched(inv.address, inv.data, o)
             /\ history' = Append(history,
                                  Interaction("call", NoAddress, out.invocation, sandbox,
                                              out.sandbox, o.result))
             /\ Done("call_and_expect_error", out.ret.tag)
    /\ UNCHANGED <<actor, origin, gas_limit, storage_deposit_limit, transcoders, mocks>>

\* dry_run_call: previews the call under the stored origin.
dry_run_call(address, message, args, result) ==
    LET t == get_transcoder(transcoders, address)
        enc == encode(t, message, args)
    IN  IF t = NoTranscoderId
        THEN [ret |-> Ret("NoTranscoder", <<>>), record |-> record,
              transcoders |-> transcoders, sandbox |-> sandbox,
              invocation |-> NoInvocation]
        ELSE IF ~enc.ok
        THEN [ret |-> Ret("Encoding", <<>>), record |-> record,
              transcoders |-> transcoders, sandbox |-> sandbox,
              invocation |-> NoInvocation]
        ELSE [ret |-> Ret("Ok", <<result>>), record |-> record,
              transcoders |-> transcoders,
              sandbox |-> dry_run(sandbox, call_contract(sandbox, <<>>)),
              invocation |-> Invocation("call_contract", address, enc.data, origin)]

DryRunCall ==
    /\ ops < MaxOps
    /\ UNCHANGED <<salts, deployed_mocks, dispatched>>
    /\ \E address \in Addresses, rq \in Requests, result \in CallResults :
        LET out == dry_run_call(address, rq[1], rq[2], result) IN
        /\ record' = out.record
        /\ transcoders' = out.transcoders
        /\ sandbox' = out.sandbox
        /\ Done("dry_run_call", out.ret.tag)
    /\ UNCHANGED <<actor, origin, gas_limit, storage_deposit_limit, mocks, history>>

\* ---------------------------------------------------------------- session: mocking

\* What deploying the dummy contract may answer: its constructor is a no-op, so it
\* lands at a fresh address unless the dispatch itself fails.
DummyDeployResults(sb) ==
    {OkResult(FALSE, a, <<>>) : a \in FreeAddresses(sb)} \cup {ErrResult}

\* A deploy_mock that deploys the dummy as the session's actor with its gas limit.
deploy_mock_as_session(mock, result, kinds) ==
    LET s == salt(mocks)
        sb1 == deploy_contract(sandbox, "dummy", result, kinds)
        inv == [fn |-> "deploy_contract", address |-> NoAddress, data |-> <<>>,
                origin |-> convert_account_to_origin(actor),
                gas_limit |-> gas_limit, deposit_limit |-> "Unchecked",
                salt |-> s.salt]
    IN  IF result.tag = "Ok"
        THEN [ret |-> Ret("Ok", <<result.addr>>),
              mocks |-> mock_register(s.registry, result.addr, mock),
              sandbox |-> sb1, invocation |-> inv]
        ELSE [ret |-> Ret("Panic", <<>>), mocks |-> s.registry,
              sandbox |-> sb1, invocation |-> inv]

\* MockingApi::deploy: a salt from the registry, the dummy contract deployed under
\* the default actor, the mock registered at its address. The deployment is
\* expected to succeed, and the operation aborts when it does not.
deploy_mock(mock, result, kinds) ==
    LET s == salt(mocks)
        sb1 == deploy_contract(sandbox, "dummy", result, kinds)
        inv == [fn |-> "deploy_contract", address |-> NoAddress, data |-> <<>>,
                origin |-> convert_account_to_origin(default_actor),
                gas_limit |-> default_gas_limit, deposit_limit |-> "Unchecked",
                salt |-> s.salt]
    IN  IF result.tag = "Ok"
        THEN [ret |-> Ret("Ok", <<result.addr>>),
              mocks |-> mock_register(s.registry, result.addr, mock),
              sandbox |-> sb1, invocation |-> inv]
        ELSE [ret |-> Ret("Panic", <<>>), mocks |-> s.registry,
              sandbox |-> sb1, invocation |-> inv]

DeployMock ==
    /\ ops < MaxOps
    /\ \E mock \in MockIds, result \in DummyDeployResults(sandbox) :
        \E kinds \in EmissionsOf(result) :
        LET out == deploy_mock(mock, result, kinds) IN
        /\ mocks' = out.mocks
        /\ sandbox' = out.sandbox
        /\ salts' = Append(salts, out.invocation.salt)
        /\ deployed_mocks' = IF out.ret.tag = "Ok"
                             THEN Append(deployed_mocks,
                                         [address |-> result.addr, mock |-> mock])
                             ELSE deployed_mocks
        /\ UNCHANGED dispatched
        /\ Done("deploy_mock", out.ret.tag)
    /\ UNCHANGED <<actor, origin, gas_limit, storage_deposit_limit, transcoders, record,
                   history>>

\* An implementation that registers the mock at the address it is given.
mock_existing_contract_registering(mock, address) ==
    [ret |-> Ret("Ok", <<>>), mocks |-> mock_register(mocks, address, mock)]

\* mock_existing_contract: `todo!("soon")`, which aborts.
mock_existing_contract(mock, address) ==
    [ret |-> Ret("Panic", <<>>), mocks |-> mocks]

MockExistingContract ==
    /\ ops < MaxOps
    /\ UNCHANGED <<salts, deployed_mocks, dispatched>>
    /\ \E mock \in MockIds, address \in Addresses :
        LET out == mock_existing_contract(mock, address) IN
        /\ mocks' = out.mocks
        /\ Done("mock_existing_contract", out.ret.tag)
    /\ UNCHANGED <<actor, origin, gas_limit, storage_deposit_limit, transcoders, record,
                   sandbox, history>>

\* ---------------------------------------------------------------- specification

\* Every sequence of session operations.
Next ==
    \/ WithActor
    \/ SetActor
    \/ WithGasLimit
    \/ SetGasLimit
    \/ WithStorageDepositLimit
    \/ SetStorageDepositLimit
    \/ SetTranscoder
    \/ Deploy
    \/ DryRunDeployment
    \/ Upload
    \/ Call
    \/ DryRunCall
    \/ DeployMock
    \/ MockExistingContract

Spec == Init /\ [][Next]_vars

\* ---------------------------------------------------------------- specification: faults

\* Every sequence of session operations, call_and_expect_error among them.
NextFaults ==
    \/ Next
    \/ CallAndExpectError

SpecFaults == Init /\ [][NextFaults]_vars

\* ---------------------------------------------------------------- specification: mocks

\* The raw inputs a message call may carry: a selector, then the arguments.
Inputs == {<<Selector(rq[1])>> \o rq[2] : rq \in Requests}

\* A message call dispatched by the sandbox without the session's call: through
\* Session::sandbox(), or from a contract that calls another.
SandboxCall ==
    /\ ops < MaxOps
    /\ \E address \in Addresses, input \in Inputs :
        \E o \in call_outcomes(sandbox, address, input) :
        \E kinds \in EmissionsOf(o.result) :
        /\ sandbox' = call_contract(sandbox, kinds)
        /\ dispatched' = Dispatched(address, input, o)
        /\ Done("sandbox_call", o.result.tag)
    /\ UNCHANGED <<actor, origin, gas_limit, storage_deposit_limit, transcoders, record,
                   mocks, salts, deployed_mocks, history>>

NextMock ==
    \/ DeployMock
    \/ SetTranscoder
    \/ Call
    \/ SandboxCall

SpecMock == Init /\ [][NextMock]_vars

\* ---------------------------------------------------------------- specification: salts

\* Consecutive deploy_mock calls on one session, seen at the mock registry: each
\* takes the next salt. Whether the increment of the nonce wraps around or panics
\* at U8_MAX depends on the build, so both may happen.
MockSalt ==
    /\ Len(salts) < MaxSalts
    /\ last.tag # "Panic"
    /\ LET s == salt(mocks) IN
       /\ mocks' = s.registry
       /\ salts' = Append(salts, s.salt)
    /\ UNCHANGED <<actor, origin, gas_limit, storage_deposit_limit, transcoders, record,
                   sandbox, deployed_mocks, dispatched, lock, pc, spans, set_result,
                   history, last, ops,
                   build_vars, cli_vars>>

MockSaltOverflow ==
    /\ Len(salts) < MaxSalts
    /\ last.tag # "Panic"
    /\ salt_overflows(mocks)
    /\ last' = [op |-> "deploy_mock", tag |-> "Panic"]
    /\ UNCHANGED <<actor, origin, gas_limit, storage_deposit_limit, transcoders, record,
                   mocks, sandbox, salts, deployed_mocks, dispatched, lock, pc, spans,
                   set_result, history, ops,
                   build_vars, cli_vars>>

NextSalt ==
    \/ MockSalt
    \/ MockSaltOverflow

SpecSalt == Init /\ [][NextSalt]_vars

\* ---------------------------------------------------------------- specification: lock

\* Mutex::lock for `who`, which blocks unless the lock is free, and the drop of the
\* MutexGuard.
acquire(lk, who) == who
release(lk) == "free"

\* A deploy that binds the guard to a variable living until the end of deploy.
salt_statement_keeping_guard(lk) == lk

\* `let salt = self.mocks.lock().expect(..).salt();`: the guard is a temporary of
\* the statement, dropped at its end.
salt_statement_end(lk) == release(lk)

\* `self.mocks.lock().expect(..).register(..);`: likewise.
register_statement_end(lk) == release(lk)

\* MockingExtension::intercept_call: the guard taken for the lookup is dropped
\* before the handler is called.
lookup_end(lk) == release(lk)

At(where) == [pc EXCEPT !.at = where]

\* deploy_mock, the start of `let salt = ..`: the session locks the registry.
MockSaltLock ==
    /\ ops < MaxOps
    /\ pc = Idle
    /\ lock = "free"
    /\ \E mock \in MockIds :
        pc' = [Idle EXCEPT !.at = "salt", !.op = "deploy_mock", !.mock = mock]
    /\ lock' = acquire(lock, "session")
    /\ UNCHANGED <<actor, origin, gas_limit, storage_deposit_limit, transcoders, record,
                   mocks, sandbox, salts, deployed_mocks, dispatched, spans, set_result,
                   history, last, ops,
                   build_vars, cli_vars>>

\* deploy_mock, the end of `let salt = ..`: the salt is taken.
MockSaltTaken ==
    /\ pc.at = "salt"
    /\ LET s == salt(mocks) IN
       /\ mocks' = s.registry
       /\ salts' = Append(salts, s.salt)
    /\ lock' = salt_statement_end(lock)
    /\ pc' = At("deploy")
    /\ UNCHANGED <<actor, origin, gas_limit, storage_deposit_limit, transcoders, record,
                   sandbox, deployed_mocks, dispatched, spans, set_result, history, last,
                   ops,
                   build_vars, cli_vars>>

\* deploy_mock, deploy_contract: the sandbox enters the dummy's constructor at the
\* address it derived, or fails to dispatch and deploy_mock aborts.
MockDeployEnter ==
    /\ pc.at = "deploy"
    /\ \E result \in DummyDeployResults(sandbox) :
        IF result.tag = "Ok"
        THEN /\ pc' = [pc EXCEPT !.at = "entry", !.address = result.addr]
             /\ UNCHANGED <<sandbox, last, ops>>
        ELSE /\ pc' = Idle
             /\ sandbox' = deploy_contract(sandbox, "dummy", result, <<>>)
             /\ Ended("deploy_mock", "Panic")
    /\ UNCHANGED <<actor, origin, gas_limit, storage_deposit_limit, transcoders, record,
                   mocks, salts, deployed_mocks, dispatched, lock, spans, set_result,
                   history,
                   build_vars, cli_vars>>

\* A message call: the sandbox enters the contract at `address`.
CallEnter ==
    /\ ops < MaxOps
    /\ pc = Idle
    /\ \E address \in Addresses, input \in Inputs :
        pc' = [Idle EXCEPT !.at = "entry", !.op = "call", !.address = address,
                           !.input = input]
    /\ UNCHANGED <<actor, origin, gas_limit, storage_deposit_limit, transcoders, record,
                   mocks, sandbox, salts, deployed_mocks, dispatched, lock, spans,
                   set_result, history, last, ops,
                   build_vars, cli_vars>>

\* The interception callback, called by the sandbox at a contract entry or by a
\* handler that calls a contract: it locks the registry, and blocks for ever when
\* the lock is held, there being one thread.
InterceptLock ==
    /\ pc.at \in {"entry", "handler"}
    /\ IF lock = "free"
       THEN /\ lock' = acquire(lock, "extension")
            /\ pc' = At(IF pc.at = "entry" THEN "lookup" ELSE "nested_lookup")
       ELSE /\ pc' = At("deadlock")
            /\ UNCHANGED lock
    /\ UNCHANGED <<actor, origin, gas_limit, storage_deposit_limit, transcoders, record,
                   mocks, sandbox, salts, deployed_mocks, dispatched, spans, set_result,
                   history, last, ops,
                   build_vars, cli_vars>>

\* The callback looks the address up and drops the guard: the mock's handler is
\* called, or the sandbox executes the contract.
InterceptLookup ==
    /\ pc.at \in {"lookup", "nested_lookup"}
    /\ lock' = lookup_end(lock)
    /\ LET mock == mock_get(extension_registry, pc.address) IN
       pc' = IF pc.at = "nested_lookup" THEN At("answer")
             ELSE IF mock # NoMock THEN [pc EXCEPT !.at = "handler", !.mock = mock]
             ELSE At("execute")
    /\ UNCHANGED <<actor, origin, gas_limit, storage_deposit_limit, transcoders, record,
                   mocks, sandbox, salts, deployed_mocks, dispatched, spans, set_result,
                   history, last, ops,
                   build_vars, cli_vars>>

\* The contract entry ends and control leaves the sandbox: a call returns to its
\* caller, a deployment to deploy_mock.
SandboxReturn ==
    /\ pc.at \in {"execute", "handler", "answer"}
    /\ IF pc.op = "call"
       THEN /\ sandbox' = call_contract(sandbox, <<>>)
            /\ pc' = Idle
            /\ Ended("sandbox_call", IF pc.at = "execute" THEN "Executed" ELSE "Mocked")
       ELSE /\ sandbox' = deploy_contract(sandbox, "dummy",
                                          OkResult(FALSE, pc.address, <<>>), <<>>)
            /\ pc' = At("deployed")
            /\ UNCHANGED <<last, ops>>
    /\ UNCHANGED <<actor, origin, gas_limit, storage_deposit_limit, transcoders, record,
                   mocks, salts, deployed_mocks, dispatched, lock, spans, set_result,
                   history,
                   build_vars, cli_vars>>

\* deploy_mock, the start of the register statement: the session locks the
\* registry again.
MockRegisterLock ==
    /\ pc.at = "deployed"
    /\ IF lock = "free"
       THEN /\ lock' = acquire(lock, "session")
            /\ pc' = At("register")
       ELSE /\ pc' = At("deadlock")
            /\ UNCHANGED lock
    /\ UNCHANGED <<actor, origin, gas_limit, storage_deposit_limit, transcoders, record,
                   mocks, sandbox, salts, deployed_mocks, dispatched, spans, set_result,
                   history, last, ops,
                   build_vars, cli_vars>>

\* deploy_mock, the end of the register statement; the address is returned.
MockRegistered ==
    /\ pc.at = "register"
    /\ mocks' = mock_register(mocks, pc.address, pc.mock)
    /\ lock' = register_statement_end(lock)
    /\ deployed_mocks' = Append(deployed_mocks, [address |-> pc.address, mock |-> pc.mock])
    /\ pc' = Idle
    /\ Ended("deploy_mock", "Ok")
    /\ UNCHANGED <<actor, origin, gas_limit, storage_deposit_limit, transcoders, record,
                   sandbox, salts, dispatched, spans, set_result, history,
                   build_vars, cli_vars>>

NextLock ==
    \/ MockSaltLock
    \/ MockSaltTaken
    \/ MockDeployEnter
    \/ CallEnter
    \/ InterceptLock
    \/ InterceptLookup
    \/ SandboxReturn
    \/ MockRegisterLock
    \/ MockRegistered

SpecLock == Init /\ [][NextLock]_vars

\* ---------------------------------------------------------------- specification: tracing

EntryPoints == {"Constructor", "Call"}

\* <DrinkDebug as Tracing>::new_call_span
new_call_span(contract_address, entry_point, input_data) ==
    [contract_address |-> contract_address, entry_point |-> entry_point,
     input_data |-> input_data]

\* contract_call_debugger::after_call: the runtime interface, which hands what it
\* is given to the host-side observers.
contract_call_debugger_after_call(contract_address, is_call, input_data, output) ==
    [contract_address |-> contract_address, is_call |-> is_call,
     input_data |-> input_data, output |-> output]

\* A finalization that reports the entry without its input.
after_call_dropping_input(span, output) ==
    contract_call_debugger_after_call(
        encode_address(span.contract_address), span.entry_point = "Call", <<>>,
        output.data)

\* DrinkCallSpan::after_call, which consumes the span.
after_call(span, output) ==
    contract_call_debugger_after_call(
        encode_address(span.contract_address), span.entry_point = "Call",
        span.input_data, output.data)

\* What the entry of a constructor may end with.
ConstructorResults == {OkResult(r, NoAddress, <<>>) : r \in BOOLEAN} \cup {ErrResult}

\* What a contract entry may end with, and whether the sandbox executed it.
entry_outcomes(sb, address, entry_point, input_data) ==
    IF entry_point = "Call" THEN call_outcomes(sb, address, input_data)
    ELSE {[result |-> r, executed |-> TRUE] : r \in ConstructorResults}

\* The sandbox enters a contract: it creates the call span just before the call
\* is made.
EntryStart ==
    /\ ops < MaxOps
    /\ Len(spans) < MaxSpans
    /\ pc = Idle
    /\ \E address \in Addresses, entry_point \in EntryPoints, input \in Inputs :
        /\ pc' = [Idle EXCEPT !.at = "entered", !.op = entry_point,
                              !.address = address, !.input = input]
        /\ spans' = Append(spans,
                           [span |-> new_call_span(address, entry_point, input),
                            address |-> address, entry_point |-> entry_point,
                            input |-> input, ended |-> FALSE, executed |-> FALSE,
                            result |-> ErrResult, reports |-> <<>>])
    /\ UNCHANGED <<actor, origin, gas_limit, storage_deposit_limit, transcoders, record,
                   mocks, sandbox, salts, deployed_mocks, dispatched, lock, set_result,
                   history, last, ops,
                   build_vars, cli_vars>>

\* The entry ends, intercepted or executed: after_call is called on its span with
\* the output when the call is done; an entry that ends in an error has no
\* ExecReturnValue to finalize the span with.
EntryEnd ==
    /\ pc.at = "entered"
    /\ \E o \in entry_outcomes(sandbox, pc.address, pc.op, pc.input) :
        LET n == Len(spans)
            open == spans[n]
        IN  spans' = [spans EXCEPT ![n] =
                         [open EXCEPT !.ended = TRUE, !.executed = o.executed,
                                      !.result = o.result,
                                      !.reports = IF o.result.tag = "Ok"
                                                  THEN Append(@, after_call(open.span,
                                                                            o.result))
                                                  ELSE @]]
    /\ pc' = Idle
    /\ Ended("entry", "Ok")
    /\ UNCHANGED <<actor, origin, gas_limit, storage_deposit_limit, transcoders, record,
                   mocks, sandbox, salts, deployed_mocks, dispatched, lock, set_result,
                   history,
                   build_vars, cli_vars>>

NextTrace ==
    \/ DeployMock
    \/ EntryStart
    \/ EntryEnd

SpecTrace == Init /\ [][NextTrace]_vars

\* ---------------------------------------------------------------- test macro: contract building

get_manifest_path(package) == package.manifest_path

\* HashMap::entry: the entry of the key is occupied or vacant.
entry(map, key) == IF map[key] = NoEntry THEN "Vacant" ELSE "Occupied"

\* A guard that is dropped once the entry has been looked up.
match_guard_dropped(th) == "free"

\* The MutexGuard is a temporary of the match's scrutinee: it lives, and th holds
\* the mutex, until the match ends.
match_guard(th) == th

\* The guard of th, if th holds one, is dropped at the end of the match.
match_end(mutex, th) == IF mutex.holder = th THEN [mutex EXCEPT !.holder = "free"] ELSE mutex

\* A thread that panics while it holds the guard poisons the mutex as the guard
\* is dropped.
unwind(mutex, th) ==
    IF mutex.holder = th THEN [holder |-> "free", poisoned |-> TRUE] ELSE mutex

\* `result.metadata_result.expect(..).dest_bundle`, with the package's name.
new_entry(pkg, result) == <<pkg.package.name, result.metadata_result[1].dest_bundle>>

\* Whether the build gave what the Vacant arm expects of it.
build_succeeded(result) == result.tag = "Ok" /\ result.metadata_result # <<>>

Returned(th, manifest_path, e, built) ==
    returns' = returns \cup {[thread |-> th, manifest_path |-> manifest_path,
                              entry |-> e, built |-> built]}

\* A thread calls build_contract_crate: the manifest path and the features.
BuildContractCrate ==
    /\ build_calls < MaxCalls
    /\ \E th \in Threads, pkg \in FeaturedPackages :
        /\ builders[th].at = "idle"
        /\ builders' = [builders EXCEPT ![th] = [NotBuilding EXCEPT !.at = "locking",
                                                                    !.pkg = pkg]]
    /\ build_calls' = build_calls + 1
    /\ UNCHANGED <<CONTRACTS_BUILT, built_mutex, executions, returns>>
    /\ UNCHANGED <<session_vars, cli_vars>>

\* The scrutinee of the match: lock() on a poisoned mutex is an error and the
\* thread panics; an occupied entry is cloned and returned; a vacant one is to
\* be built.
LockAndMatch ==
    /\ built_mutex.holder = "free"
    /\ \E th \in Threads :
        /\ builders[th].at = "locking"
        /\ LET manifest_path == get_manifest_path(builders[th].pkg.package) IN
           IF built_mutex.poisoned
           THEN /\ builders' = [builders EXCEPT ![th].at = "panicked"]
                /\ UNCHANGED <<built_mutex, returns>>
           ELSE IF entry(CONTRACTS_BUILT, manifest_path) = "Occupied"
           THEN /\ Returned(th, manifest_path, CONTRACTS_BUILT[manifest_path], FALSE)
                /\ builders' = [builders EXCEPT ![th] = NotBuilding]
                /\ UNCHANGED built_mutex
           ELSE /\ builders' = [builders EXCEPT ![th].at = "vacant"]
                /\ built_mutex' = [built_mutex EXCEPT !.holder = match_guard(th)]
                /\ UNCHANGED returns
    /\ UNCHANGED <<CONTRACTS_BUILT, executions, build_calls>>
    /\ UNCHANGED <<session_vars, cli_vars>>

\* The Vacant arm: contract_build::execute is called; an error, or a result
\* without metadata, is a panic.
Execute ==
    /\ \E th \in Threads, result \in ExecuteResults :
        /\ builders[th].at = "vacant"
        /\ executions' = Append(executions,
                                [thread |-> th,
                                 manifest_path |-> get_manifest_path(builders[th].pkg.package),
                                 features |-> builders[th].pkg.features_on,
                                 result |-> result])
        /\ IF build_succeeded(result)
           THEN /\ builders' = [builders EXCEPT ![th].at = "built", ![th].result = result]
                /\ UNCHANGED built_mutex
           ELSE /\ builders' = [builders EXCEPT ![th].at = "panicked"]
                /\ built_mutex' = unwind(built_mutex, th)
    /\ UNCHANGED <<CONTRACTS_BUILT, returns, build_calls>>
    /\ UNCHANGED <<session_vars, cli_vars>>

\* The Vacant arm: the new entry is inserted and returned, and the match ends.
Insert ==
    /\ \E th \in Threads :
        /\ builders[th].at = "built"
        /\ LET manifest_path == get_manifest_path(builders[th].pkg.package)
               e == new_entry(builders[th].pkg, builders[th].result)
           IN  /\ CONTRACTS_BUILT' = [CONTRACTS_BUILT EXCEPT ![manifest_path] = e]
               /\ Returned(th, manifest_path, e, TRUE)
        /\ builders' = [builders EXCEPT ![th] = NotBuilding]
        /\ built_mutex' = match_end(built_mutex, th)
    /\ UNCHANGED <<executions, build_calls>>
    /\ UNCHANGED <<session_vars, cli_vars>>

NextBuild ==
    \/ BuildContractCrate
    \/ LockAndMatch
    \/ Execute
    \/ Insert

SpecBuild == Init /\ [][NextBuild]_vars

\* ---------------------------------------------------------------- CLI: executor

\* What the sandbox may answer to deploy_contract: an error, a constructor that
\* reverted, or the address of the new contract, which no contract has yet.
executor_deploy_results(instantiated) ==
    {[tag |-> "Err", account_id |-> NoAddress]}
    \cup {[tag |-> t, account_id |-> a] :
              t \in {"Ok", "Reverted"}, a \in Addresses \ instantiated}
\* What the sandbox may answer to call_contract.
executor_call_results ==
    {[tag |-> t, account_id |-> NoAddress] : t \in {"Err", "Ok", "Reverted"}}

\* `Vec::get` with a zero-based index.
get(vec, index) == IF index < Len(vec) THEN <<vec[index + 1]>> ELSE <<>>

\* A deploy that went well and leaves the current contract where it was.
deployed_keeping_current(state, contract_name, account_id) ==
    [state EXCEPT !.chain_info.deployed_contracts = @ + 1,
                  !.contracts = Append(@, [name |-> contract_name, address |-> account_id])]

\* deploy, "Everything went well": the counter, the push and the current contract.
deployed(state, contract_name, account_id) ==
    LET pushed == Append(state.contracts, [name |-> contract_name, address |-> account_id])
    IN  [state EXCEPT !.chain_info.deployed_contracts = @ + 1,
                      !.contracts = pushed,
                      !.ui_state.current_contract = Len(pushed) - 1]

Outcome(state, outcome, invoked, printed) ==
    [app_state |-> state, outcome |-> outcome, invoked |-> invoked, printed |-> printed]

\* deploy: what it leaves of the state, whether it invoked the sandbox and
\* what it printed, given the working directory and the sandbox's answer.
executor_deploy(state, directory, result) ==
    IF directory.blob = <<>>
    THEN Outcome(state, "none", FALSE, <<"Failed to find contract file">>)
    ELSE
    LET contract_name == directory.blob[1]
        named == [state EXCEPT !.ui_state.contract_project_name = contract_name]
    IN  IF ~directory.readable
        THEN Outcome(named, "none", FALSE, <<"Failed to read contract bytes">>)
        ELSE IF ~directory.metadata
        THEN Outcome(named, "none", FALSE,
                     <<"Failed to create transcoder from metadata file.">>)
        ELSE IF result.tag = "Reverted"
        THEN Outcome(named, "Reverted", TRUE,
                     <<"contract action", "Contract deployment failed with error">>)
        ELSE IF result.tag = "Err"
        THEN Outcome(named, "Err", TRUE, <<"contract action", "Failed to deploy contract">>)
        ELSE Outcome(deployed(named, contract_name, result.account_id), "Ok", TRUE,
                     <<"contract action", "Contract deployed successfully">>)

\* call: the current contract is looked up first; without one nothing is sent.
executor_call(state, message, result) ==
    IF get(state.contracts, state.ui_state.current_contract) = <<>>
    THEN Outcome(state, "none", FALSE, <<"No deployed contract">>)
    ELSE IF result.tag = "Reverted"
    THEN Outcome(state, "Reverted", TRUE,
                 <<"contract action", "Contract call failed with error">>)
    ELSE IF result.tag = "Err"
    THEN Outcome(state, "Err", TRUE, <<"contract action", "Failed to deploy contract">>)
    ELSE Outcome(state, "Ok", TRUE, <<"contract action", "Result">>)

Commanded(command, o) ==
    /\ app_state' = o.app_state
    /\ cli_last' = [command |-> command, outcome |-> o.outcome, invoked |-> o.invoked,
                    printed |-> o.printed,
                    deployed |-> IF command = "deploy" /\ o.outcome = "Ok"
                                 THEN cli_last.deployed + 1 ELSE cli_last.deployed]
    /\ commands' = commands + 1

\* The deploy command.
CliDeploy ==
    /\ commands < MaxCommands
    /\ \E directory \in Directories, result \in executor_deploy_results(cli_sandbox) :
        LET o == executor_deploy(app_state, directory, result) IN
        /\ Commanded("deploy", o)
        /\ cli_sandbox' = IF o.outcome = "Ok" THEN cli_sandbox \cup {result.account_id}
                          ELSE cli_sandbox
    /\ UNCHANGED <<session_vars, build_vars>>

\* The call command.
CliCall ==
    /\ commands < MaxCommands
    /\ \E message \in Messages, result \in executor_call_results :
        Commanded("call", executor_call(app_state, message, result))
    /\ UNCHANGED cli_sandbox
    /\ UNCHANGED <<session_vars, build_vars>>

NextCli ==
    \/ CliDeploy
    \/ CliCall

SpecCli == Init /\ [][NextCli]_vars

\* ---------------------------------------------------------------- properties

IsPrefix(s, t) == Len(s) <= Len(t) /\ SubSeq(t, 1, Len(s)) = s

IsDeploy(h) == h.op = "deploy"
IsCall(h) == h.op = "call"
Succeeded(h) == h.result.tag = "Ok" /\ ~h.result.reverted
IsSuccessfulDeploy(h) == IsDeploy(h) /\ Succeeded(h)
IsUnsuccessfulDeploy(h) == IsDeploy(h) /\ ~Succeeded(h)

\* The addresses the sandbox handed out to the session's successful deploys, in order.
DeployedAddresses ==
    LET succ == SelectSeq(history, IsSuccessfulDeploy) IN
    [i \in 1..Len(succ) |-> succ[i].result.addr]

\* C1: in every reachable state the stored origin is the origin derived from the
\* actor currently set.
C1_OriginIsActorOrigin == origin = convert_account_to_origin(actor)

\* C2: with_actor(a) and set_actor(a) map account a, the newly set actor, in the
\* sandbox as part of the operation.
C2_NewActorMapped ==
    last.op \in {"with_actor", "set_actor"} => actor \in sandbox.mapped

\* C3: the Nth entry of deploy_returns is the address of the Nth successful
\* deploy, and deploy_results is longer than deploy_returns by exactly the number
\* of deploys that reached the sandbox and reverted or failed.
C3_DeployReturns ==
    /\ record.deploy_returns = DeployedAddresses
    /\ Len(record.deploy_results) >= Len(record.deploy_returns)
    /\ Len(record.deploy_results) - Len(record.deploy_returns)
           = Len(SelectSeq(history, IsUnsuccessfulDeploy))

\* A deploy that did not succeed, followed by one that did.
C3_Witness ==
    /\ Len(record.deploy_results) = 2
    /\ Len(record.deploy_returns) = 1
    /\ IsUnsuccessfulDeploy(history[1])

\* C4: the batch recorded for an interaction is exactly the slice of the event log
\* between the length before it and the length after it, and that slice holds the
\* events of that interaction's invocation and of no other.
C4_EventBatchBoundary ==
    \A n \in 1..Len(history) :
        /\ n <= Len(record.event_batches)
        /\ record.event_batches[n]
               = SubSeq(sandbox.events, history[n].pre + 1, history[n].post)
        /\ \A i \in 1..Len(sandbox.events) :
               (sandbox.events[i].by = history[n].id)
                   <=> (history[n].pre < i /\ i <= history[n].post)

\* An interaction that emitted events after another invocation had emitted some.
C4_Witness ==
    \E n \in 1..Len(history) :
        /\ history[n].pre > 0
        /\ history[n].post > history[n].pre
        /\ Len(record.event_batches[n]) > 0

\* C5: there is one event batch per deploy or call that reached the sandbox, the
\* Nth batch holding events of the Nth such operation only, however many it emitted.
C5_OneBatchPerInteraction ==
    /\ Len(record.event_batches) = Len(history)
    /\ Len(record.event_batches)
           = Len(record.deploy_results) + Len(record.call_results)
    /\ \A n \in 1..Len(record.event_batches) :
           \A i \in 1..Len(record.event_batches[n]) :
               record.event_batches[n][i].by = history[n].id

\* Two interactions whose batches differ in size.
C5_Witness ==
    /\ Len(record.event_batches) = 2
    /\ Len(record.event_batches[1]) # Len(record.event_batches[2])

\* One step in which each sequence of the Record keeps its previous value as a
\* prefix.
RecordGrows ==
    /\ IsPrefix(record.deploy_results, record'.deploy_results)
    /\ IsPrefix(record.deploy_returns, record'.deploy_returns)
    /\ IsPrefix(record.call_results, record'.call_results)
    /\ IsPrefix(record.call_returns, record'.call_returns)
    /\ IsPrefix(record.event_batches, record'.event_batches)

DeployStep ==
    last'.op = "deploy" /\ last'.tag # "Encoding" =>
        /\ Len(history') = Len(history) + 1
        /\ LET h == Last(history') IN
           /\ IsDeploy(h)
           /\ record'.deploy_results = Append(record.deploy_results, h.result)
           /\ last'.tag \in {"Ok", "DeploymentReverted", "DeploymentFailed"}
           /\ (last'.tag = "Ok") <=> Succeeded(h)
           /\ (last'.tag = "DeploymentReverted") <=> did_revert(h.result)
           /\ (last'.tag = "DeploymentFailed") <=> (h.result.tag = "Err")
           /\ IF Succeeded(h)
              THEN /\ transcoders' = [transcoders EXCEPT ![h.result.addr] = h.arg]
                   /\ record'.deploy_returns
                          = Append(record.deploy_returns, h.result.addr)
              ELSE /\ transcoders' = transcoders
                   /\ record'.deploy_returns = record.deploy_returns

\* C7: a deploy that reaches the sandbox ends as exactly one of success,
\* DeploymentReverted and DeploymentFailed, following the sandbox's answer; the raw
\* result is appended to deploy_results in each case; the supplied transcoder is
\* registered for the returned address and the address pushed to deploy_returns on
\* success only.
C7_DeployClassification == [][DeployStep]_vars

\* A deploy that reverted after one that had succeeded.
C7_Witness ==
    /\ last = [op |-> "deploy", tag |-> "DeploymentReverted"]
    /\ Len(record.deploy_results) = 2
    /\ Len(record.deploy_returns) = 1

\* The address of the latest successful deploy among the first n interactions,
\* NoAddress when there is none.
LatestDeployed(n) ==
    LET succ == SelectSeq(SubSeq(history, 1, n), IsSuccessfulDeploy) IN
    IF Len(succ) = 0 THEN NoAddress ELSE Last(succ).result.addr

C9_NoTranscoder ==
    /\ \A a \in Addresses :
        transcoders[a] = NoTranscoderId =>
            /\ \A n \in 1..Len(DeployedAddresses) : DeployedAddresses[n] # a
            /\ \A rq \in Requests :
                /\ \A result \in CallResults :
                       LET out == dry_run_call(a, rq[1], rq[2], result) IN
                       out.ret.tag = "NoTranscoder" /\ out.invocation.fn = "none"
                /\ \A V \in ValueTypes, result \in CallResults :
                       \A kinds \in EmissionsOf(result) :
                           LET out == call_internal(a, rq[1], rq[2], V, result, kinds) IN
                           /\ out.ret.tag = "NoTranscoder"
                           /\ out.invocation.fn = "none"
                           /\ out.record = record
    /\ last.tag = "NoTranscoder" =>
           /\ last.op \in {"call", "dry_run_call"}
           /\ \E a \in Addresses : transcoders[a] = NoTranscoderId
    /\ \A n \in 1..Len(history) :
           IsCall(history[n]) => transcoders[history[n].target] # NoTranscoderId

\* A call that ended with NoTranscoder while a mock stood deployed at an address
\* for which no transcoder was set, where a call to that address ends so.
C9_Witness ==
    /\ last = [op |-> "call", tag |-> "NoTranscoder"]
    /\ \E a \in Addresses :
           /\ mocks.mocked_contracts[a] # NoMock
           /\ transcoders[a] = NoTranscoderId
           /\ call_precheck(a, "get", <<>>) = "NoTranscoder"

ResultsOf(entries) == [i \in 1..Len(entries) |-> entries[i].result]

\* C10: a call that reverts returns CallReverted with exactly the data of the
\* sandbox's result, and the Record holds the raw result of every call and of every
\* deploy that reached the sandbox, reverted ones included, in order.
C10_RevertPayloadKept ==
    /\ record.call_results = ResultsOf(SelectSeq(history, IsCall))
    /\ record.deploy_results = ResultsOf(SelectSeq(history, IsDeploy))
    /\ last = [op |-> "call", tag |-> "CallReverted"] =>
           /\ Len(history) > 0
           /\ IsCall(Last(history))
           /\ did_revert(Last(history).result)
    /\ \A address \in Addresses \cup {NoAddress}, rq \in Requests :
           call_precheck(address, rq[1], rq[2]) = "" =>
               \A V \in ValueTypes, result \in CallResults :
                   \A kinds \in EmissionsOf(result) :
                       LET out == call_internal(address, rq[1], rq[2], V, result, kinds)
                       IN  did_revert(result) =>
                               /\ out.ret = Ret("CallReverted", result.data)
                               /\ out.record.call_results
                                      = Append(record.call_results, result)

\* A call that reverted with a payload, now the latest call result of the Record.
C10_Witness ==
    /\ last = [op |-> "call", tag |-> "CallReverted"]
    /\ Len(record.call_results) = 1
    /\ record.call_results[1].reverted
    /\ Len(record.call_results[1].data) > 0

IsSuccessfulCall(h) == IsCall(h) /\ Succeeded(h)
IsUnsuccessfulCall(h) == IsCall(h) /\ ~Succeeded(h)

C12_LastReturnIsLatestCall ==
    LET calls == SelectSeq(history, IsCall) IN
    Len(calls) > 0 =>
        /\ Len(record.call_returns) > 0
        /\ \A V \in ValueTypes :
               last_call_return_decoded(record, V)
                   = decode_message_result(V, Last(calls).result.data)

\* One step that, when it is a dry run, left the Record, the transcoder registry
\* and what a following call would resolve to as they were.
DryRunStep ==
    last'.op \in {"dry_run_deployment", "dry_run_call"} /\ ops' = ops + 1 =>
        /\ record' = record
        /\ transcoders' = transcoders
        /\ call_target(NoAddress)' = call_target(NoAddress)
        /\ \A a \in Addresses \cup {NoAddress}, rq \in Requests :
               call_precheck(a, rq[1], rq[2])' = call_precheck(a, rq[1], rq[2])

\* C13: dry_run_deployment and dry_run_call, whatever their outcome, leave every
\* sequence of the Record, the transcoder registry and the implicit target of a
\* following call unchanged.
C13_DryRunFrame == [][DryRunStep]_vars

\* A dry run of a call that reached the sandbox, made after a deploy was recorded.
C13_Witness ==
    /\ last = [op |-> "dry_run_call", tag |-> "Ok"]
    /\ Len(record.deploy_returns) = 1
    /\ Len(record.event_batches) = 1

\* C14: in every reachable state a dry run hands the sandbox the same encoded data,
\* origin, gas limit and deposit limit as the real operation would in that state:
\* dry_run_deployment as deploy, dry_run_call as call_with_address.
C14_DryRunSameInvocation ==
    /\ \A rq \in Requests, t \in TranscoderIds :
           encode(t, rq[1], rq[2]).ok =>
               \A result \in DeployResults(sandbox) :
                   dry_run_deployment(rq[1], rq[2], t, result).invocation
                       = deploy_invocation(rq[1], rq[2], t)
    /\ \A a \in Addresses, rq \in Requests :
           call_precheck(a, rq[1], rq[2]) = "" =>
               \A result \in CallResults :
                   dry_run_call(a, rq[1], rq[2], result).invocation
                       = call_invocation(a, rq[1], rq[2])

\* One step that, when it recorded an interaction, invoked the sandbox with the
\* origin of the actor and with the limits the session held as the step began.
InvokedAsCurrent ==
    Len(history') = Len(history) + 1 =>
        LET h == Last(history') IN
        /\ h.as.origin = convert_account_to_origin(actor)
        /\ h.as.gas_limit = gas_limit
        /\ h.as.deposit_limit = storage_deposit_limit
        /\ actor' = actor /\ gas_limit' = gas_limit
        /\ storage_deposit_limit' = storage_deposit_limit

C16_SaltsDistinct ==
    \A i, j \in 1..Len(salts) : i < j => salts[i] # salts[j]

\* The mock the latest deploy_mock that returned `address` was given, NoMock when
\* none returned it.
LatestMockAt(address) ==
    LET at == {i \in 1..Len(deployed_mocks) : deployed_mocks[i].address = address} IN
    IF at = {} THEN NoMock
    ELSE deployed_mocks[CHOOSE i \in at : \A j \in at : j <= i].mock

\* What the bridge answers for a message call that `mock` stands in for.
AnswerOf(mock, input) ==
    IF Head(input) \in MockSelectors(mock)
    THEN Intercepted(OkResult(FALSE, NoAddress,
                              MockOutput(mock, Head(input), Tail(input))))
    ELSE Intercepted(ErrResult)

\* C17: once deploy_mock(handler) has returned address A, the lookup the
\* interception extension makes for A finds that handler, through the registry it
\* shares with the session, and the bridge answers every call to A from it, until
\* a later deploy_mock returns A for another handler.
C17_SharedMockRegistry ==
    \A a \in Addresses :
        LET mock == LatestMockAt(a) IN
        mock # NoMock =>
            /\ mock_get(extension_registry, a) = mock
            /\ mock_get(mocks, a) = mock
            /\ \A input \in Inputs :
                   intercept_call(a, "Call", input) = AnswerOf(mock, input)

\* A message call dispatched to the address a deploy_mock had returned, answered
\* by the handler and not by the sandbox.
C17_Witness ==
    /\ Len(deployed_mocks) = 1
    /\ last.op = "sandbox_call"
    /\ dispatched.address = deployed_mocks[1].address
    /\ ~dispatched.executed
    /\ dispatched.result.tag = "Ok"

\* The latest operation dispatched a message call: dispatched describes it.
JustDispatched ==
    \/ last.op = "sandbox_call"
    \/ last.op = "call" /\ last.tag \notin {"NoContract", "NoTranscoder", "Encoding"}

\* C18: a message call to an address a mock was deployed at, with a selector the
\* mock has a handler for, is answered with exactly the bytes the handler returns,
\* and no call to that address makes the sandbox execute the dummy contract.
C18_MockTransparency ==
    /\ \A a \in Addresses :
           LET mock == LatestMockAt(a) IN
           mock # NoMock =>
               \A input \in Inputs :
                   \A o \in call_outcomes(sandbox, a, input) :
                       /\ ~o.executed
                       /\ Head(input) \in MockSelectors(mock) =>
                              o.result = OkResult(FALSE, NoAddress,
                                                  MockOutput(mock, Head(input),
                                                             Tail(input)))
    /\ (JustDispatched /\ LatestMockAt(dispatched.address) # NoMock) =>
           LET mock == LatestMockAt(dispatched.address) IN
           /\ ~dispatched.executed
           /\ Head(dispatched.input) \in MockSelectors(mock) =>
                  /\ dispatched.result.tag = "Ok"
                  /\ dispatched.result.data
                         = MockOutput(mock, Head(dispatched.input),
                                      Tail(dispatched.input))
           /\ last.op = "call" => Last(record.call_results) = dispatched.result

\* A call to a deployed mock with an argument, answered with what its handler
\* returns for that argument, while the dummy contract stands at the address.
C18_Witness ==
    /\ last.op = "sandbox_call"
    /\ LatestMockAt(dispatched.address) = "m1"
    /\ sandbox.code[dispatched.address] = "dummy"
    /\ dispatched.input = <<Selector("get"), "x">>
    /\ dispatched.result.data = <<0, 8>>

\* The address the step registered a mock at, if it registered one.
JustRegisteredAt ==
    IF Len(deployed_mocks') > Len(deployed_mocks)
    THEN Last(deployed_mocks').address
    ELSE NoAddress

\* C19: a call to an address no mock was deployed at is declined by the bridge and
\* answered by genuine execution, and deploying a mock at one address leaves the
\* bridge's answer for every other address as it was.
C19_MockIsolation ==
    /\ [](\A a \in Addresses :
              LatestMockAt(a) = NoMock =>
                  \A input \in Inputs :
                      /\ intercept_call(a, "Call", input) = Declined
                      /\ \A o \in call_outcomes(sandbox, a, input) : o.executed)
    /\ []((JustDispatched /\ LatestMockAt(dispatched.address) = NoMock) =>
              dispatched.executed)
    /\ [][\A b \in Addresses :
              (last'.op = "deploy_mock" /\ b # JustRegisteredAt) =>
                  \A input \in Inputs :
                      intercept_call(b, "Call", input)'
                          = intercept_call(b, "Call", input)]_vars

\* With a mock deployed at one address, a call to another address was executed
\* by the sandbox and succeeded.
C19_Witness ==
    /\ Len(deployed_mocks) = 1
    /\ last.op = "sandbox_call"
    /\ dispatched.address # deployed_mocks[1].address
    /\ dispatched.executed
    /\ dispatched.result.tag = "Ok"

\* C20: a message call to an address a mock was deployed at, with a selector the
\* mock has no handler for, is not executed by the sandbox: the bridge answers it
\* with a failure, and the call fails.
C20_UnknownSelectorFails ==
    /\ \A a \in Addresses :
           LET mock == LatestMockAt(a) IN
           mock # NoMock =>
               \A input \in Inputs :
                   Head(input) \notin MockSelectors(mock) =>
                       /\ intercept_call(a, "Call", input) = Intercepted(ErrResult)
                       /\ call_outcomes(sandbox, a, input)
                              = {[result |-> ErrResult, executed |-> FALSE]}
    /\ (/\ JustDispatched
        /\ LatestMockAt(dispatched.address) # NoMock
        /\ Head(dispatched.input)
               \notin MockSelectors(LatestMockAt(dispatched.address))) =>
           /\ ~dispatched.executed
           /\ dispatched.result = ErrResult
           /\ last.tag \notin {"Ok", "CallReverted"}
           /\ last.op = "call" => Last(record.call_results) = ErrResult

\* A call with a selector the deployed mock has no handler for, answered with a
\* failure without the sandbox executing anything.
C20_Witness ==
    /\ last.op = "sandbox_call"
    /\ LatestMockAt(dispatched.address) = "m1"
    /\ Head(dispatched.input) = Selector("new")
    /\ ~dispatched.executed
    /\ dispatched.result.tag = "Err"

\* C21: the lock of the mock registry is held by the session only within the salt
\* statement and the register statement of deploy_mock, and by the interception
\* callback only for its lookup: it is free whenever control is at a contract
\* entry, in a contract or in a mock's handler, so that no acquisition blocks.
C21_LockDiscipline ==
    /\ pc.at # "deadlock"
    /\ lock = "session" => pc.at \in {"salt", "register"}
    /\ lock = "extension" => pc.at \in {"lookup", "nested_lookup"}
    /\ pc.at \in {"deploy", "entry", "execute", "handler", "answer", "deployed"} =>
           lock = "free"

\* The callback holds the lock for its lookup at the entry of the dummy's
\* constructor, within a deploy_mock that has taken its salt.
C21_Witness ==
    /\ pc.op = "deploy_mock"
    /\ pc.at = "lookup"
    /\ lock = "extension"
    /\ Len(salts) = 1

SessionOperations ==
    {"deploy", "call", "call_and_expect_error", "upload", "dry_run_deployment",
     "dry_run_call", "with_actor", "set_actor", "with_gas_limit", "set_gas_limit",
     "with_storage_deposit_limit", "set_storage_deposit_limit", "set_transcoder"}

\* C22: deploy, the calls in all their variants, upload, the dry runs and the
\* setters of the actor and of the budgets always end by returning a value, never
\* by aborting.
C22_NoAbort == last.op \in SessionOperations => last.tag # "Panic"

\* C23: set_actor, set_gas_limit and set_storage_deposit_limit each return the
\* value that was current before the call, and the getter called next returns the
\* value the setter was given.
C23_SettersReturnPrevious ==
    [][/\ last'.op = "set_actor" =>
              set_result'.ret = <<get_actor>> /\ set_result'.arg = <<get_actor'>>
       /\ last'.op = "set_gas_limit" =>
              set_result'.ret = <<get_gas_limit>> /\ set_result'.arg = <<get_gas_limit'>>
       /\ last'.op = "set_storage_deposit_limit" =>
              /\ set_result'.ret = <<get_storage_deposit_limit>>
              /\ set_result'.arg = <<get_storage_deposit_limit'>>]_vars

\* A second set_gas_limit, which returned the limit the first had set.
C23_Witness ==
    /\ ops = 2
    /\ last.op = "set_gas_limit"
    /\ set_result.ret = <<"gas_low">>
    /\ get_gas_limit = "gas_default"

\* C24: from any session state, with_X(v) and set_X(v) lead to the same session
\* state, for the actor, the gas limit and the storage deposit limit: the same
\* actor, origin and account mapping, the same limit; neither touches anything else.
C24_BuilderEqualsMutator ==
    /\ \A a \in Accounts :
           LET w == with_actor(a)
               s == set_actor(a)
           IN  /\ w.actor = s.actor
               /\ w.origin = s.origin
               /\ w.sandbox = s.sandbox
    /\ \A g \in GasLimits : with_gas_limit(g).gas_limit = set_gas_limit(g).gas_limit
    /\ \A d \in DepositLimits :
           with_storage_deposit_limit(d).storage_deposit_limit
               = set_storage_deposit_limit(d).storage_deposit_limit

\* What an accessor of the sequence `s` is to answer: an abort when `s` is empty,
\* else `final`, which is given the last element of `s`.
AbortsOrFinal(answer, s, final(_)) ==
    /\ answer.tag = "Panic" <=> Len(s) = 0
    /\ Len(s) > 0 => answer.tag = "Ok" /\ answer.val = <<final(s[Len(s)])>>

Itself(x) == x

\* C25: each last_* accessor of the Record aborts exactly when its sequence is
\* empty and otherwise returns the final element of that sequence (decoded, for
\* last_call_return_decoded); in a session on which nothing was done all abort.
C25_LastAccessors ==
    /\ AbortsOrFinal(Record_last_deploy_result(record), record.deploy_results, Itself)
    /\ AbortsOrFinal(Record_last_deploy_return(record), record.deploy_returns, Itself)
    /\ AbortsOrFinal(Record_last_call_result(record), record.call_results, Itself)
    /\ AbortsOrFinal(Record_last_call_return(record), record.call_returns, Itself)
    /\ AbortsOrFinal(Record_last_event_batch(record), record.event_batches, Itself)
    /\ \A V \in ValueTypes :
           AbortsOrFinal(Record_last_call_return_decoded(record, V), record.call_returns,
                         LAMBDA raw : decode_message_result(V, raw))
    /\ ops = 0 =>
           /\ \A V \in ValueTypes :
                  Record_last_call_return_decoded(record, V).tag = "Panic"
           /\ \A answer \in {Record_last_deploy_result(record),
                             Record_last_deploy_return(record),
                             Record_last_call_result(record),
                             Record_last_call_return(record),
                             Record_last_event_batch(record)} : answer.tag = "Panic"

\* Two deploys have ended differently and nothing was called: the deploy accessor
\* answers the second result, the call accessors abort.
C25_Witness ==
    /\ Len(record.deploy_results) = 2
    /\ record.deploy_results[1] # record.deploy_results[2]
    /\ Len(record.call_results) = 0
    /\ Record_last_deploy_result(record).val = <<record.deploy_results[2]>>
    /\ Record_last_call_result(record).tag = "Panic"
    /\ Record_last_call_return_decoded(record, "unit").tag = "Panic"

\* C26: every mock_existing_contract aborts and changes neither the mock registry
\* with its nonce nor the Record, so that the mocks registered are at all times
\* the ones deploy_mock registered.
C26_MockExistingUnimplemented ==
    /\ [](\A a \in Addresses : mock_get(mocks, a) = LatestMockAt(a))
    /\ [](mocks.nonce = Len(salts))
    /\ [][last'.op = "mock_existing_contract" =>
              /\ last'.tag = "Panic"
              /\ mocks' = mocks
              /\ record' = record]_vars

\* A mock_existing_contract that follows a deploy_mock: it has aborted, and the
\* registry holds the one mock deployed.
C26_Witness ==
    /\ last = [op |-> "mock_existing_contract", tag |-> "Panic"]
    /\ Len(deployed_mocks) = 1
    /\ mocks.nonce = 1
    /\ \E a \in Addresses : mock_get(mocks, a) # NoMock

EarlyErrors == {"NoContract", "NoTranscoder", "Encoding"}

\* C28: a call that ends with NoContract, NoTranscoder or Encoding, and a deploy or
\* a dry run that ends with Encoding, has not invoked the sandbox and has left the
\* Record, the transcoder registry and the mock registry as they were; a call
\* with no target ends with NoContract whatever else is wrong with it, and a call
\* whose target has no transcoder ends with NoTranscoder whatever its message is.
C28_EarlyErrorsFrame ==
    /\ [](\A address \in Addresses \cup {NoAddress}, rq \in Requests :
              LET out == call_internal(address, rq[1], rq[2], "unit", ErrResult, <<>>)
                  target == IF address # NoAddress THEN address
                            ELSE IF record.deploy_returns = <<>> THEN NoAddress
                            ELSE record.deploy_returns[Len(record.deploy_returns)]
              IN  /\ target = NoAddress => out.ret.tag = "NoContract"
                  /\ (target # NoAddress /\ transcoders[target] = NoTranscoderId) =>
                         out.ret.tag = "NoTranscoder"
                  /\ (/\ target # NoAddress
                      /\ transcoders[target] # NoTranscoderId
                      /\ ~encode(transcoders[target], rq[1], rq[2]).ok) =>
                         out.ret.tag = "Encoding"
                  /\ out.ret.tag \in EarlyErrors =>
                         out.record = record /\ out.sandbox = sandbox)
    /\ [][(/\ last'.op \in {"call", "deploy", "dry_run_deployment", "dry_run_call"}
           /\ last'.tag \in EarlyErrors) =>
              /\ record' = record
              /\ transcoders' = transcoders
              /\ mocks' = mocks
              /\ sandbox' = sandbox
              /\ history' = history]_vars

\* A call to an address whose transcoder does not declare the message: it ended
\* with Encoding, nothing recorded, the sandbox never invoked.
C28_Witness ==
    /\ last = [op |-> "call", tag |-> "Encoding"]
    /\ \E a \in Addresses : transcoders[a] # NoTranscoderId
    /\ record = Record_default
    /\ sandbox.invocations = 0

\* C29: a call that ends with a Decoding error has reached the sandbox and has
\* appended the payload it could not decode to call_returns, the result to
\* call_results and one batch to event_batches: the Record is not as it was.
C29_DecodingErrorRecords ==
    [][(last'.op = "call" /\ last'.tag = "Decoding") =>
           /\ sandbox'.invocations = sandbox.invocations + 1
           /\ Len(record'.call_returns) = Len(record.call_returns) + 1
           /\ Len(record'.call_results) = Len(record.call_results) + 1
           /\ Len(record'.event_batches) = Len(record.event_batches) + 1
           /\ record'.call_results[Len(record'.call_results)].tag = "Ok"
           /\ ~record'.call_results[Len(record'.call_results)].reverted
           /\ record'.call_returns[Len(record'.call_returns)]
                  = record'.call_results[Len(record'.call_results)].data
           /\ \A V \in ValueTypes :
                  last_call_return_decoded(record', V).ok
                      = decode_message_result(
                            V, record'.call_results[Len(record'.call_results)].data).ok
           /\ record'.call_returns # record.call_returns]_vars

\* A call that returned the payload <<0>> and was asked for a u8: it ended with
\* Decoding, and the payload is the one entry of call_returns.
C29_Witness ==
    /\ last = [op |-> "call", tag |-> "Decoding"]
    /\ record.call_returns = <<(<<0>>)>>
    /\ Len(record.call_results) = 1
    /\ Len(record.event_batches) = 1

\* C30: call_and and call_with_address_and, which ask for the unit message result,
\* never end with a Decoding error: whatever a call that reaches the sandbox is
\* answered, they end with Ok, CallReverted or CallFailed.
C30_UnitNeverFailsDecoding ==
    \A address \in Addresses \cup {NoAddress}, rq \in Requests :
        call_precheck(address, rq[1], rq[2]) = "" =>
            LET inv == call_invocation(address, rq[1], rq[2]) IN
            \A o \in call_outcomes(sandbox, inv.address, inv.data) :
                call_internal(address, rq[1], rq[2], "unit", o.result, <<>>).ret.tag
                    \in {"Ok", "CallReverted", "CallFailed"}

\* C31: deploy_mock appends nothing to the Record, registers no transcoder and
\* leaves the actor and the limits as they are, so that the implicit target of a
\* call is after it what it was before; and whatever the actor and the limits of
\* the session are, it deploys the dummy under the default actor with the default
\* gas limit.
C31_DeployMockFrame ==
    /\ [](\A mock \in MockIds, result \in DummyDeployResults(sandbox) :
              LET inv == deploy_mock(mock, result, <<>>).invocation IN
              /\ inv.origin = <<"Signed", default_actor>>
              /\ inv.gas_limit = default_gas_limit
              /\ inv.deposit_limit = "Unchecked")
    /\ [][last'.op = "deploy_mock" =>
              /\ record' = record
              /\ transcoders' = transcoders
              /\ history' = history
              /\ <<actor, origin, gas_limit, storage_deposit_limit>>'
                     = <<actor, origin, gas_limit, storage_deposit_limit>>
              /\ call_target(NoAddress)' = call_target(NoAddress)]_vars

\* A deploy_mock that follows a deploy: the mock stands at another address, and a
\* call without an address still goes to the contract deployed.
C31_Witness ==
    /\ last = [op |-> "deploy_mock", tag |-> "Ok"]
    /\ Len(record.deploy_returns) = 1
    /\ Len(deployed_mocks) = 1
    /\ deployed_mocks[1].address # record.deploy_returns[1]
    /\ call_target(NoAddress) = record.deploy_returns[1]
    /\ Len(record.event_batches) = 1

\* Byte i (from 1, lowest first) of the number k written in little-endian order,
\* for k below 65536.
LittleEndianByte(k, i) ==
    IF i = 1 THEN k % 256 ELSE IF i = 2 THEN (k \div 256) % 256 ELSE 0

\* C32: the k-th salt a mock registry hands out holds the number k in little-endian
\* order in its low bytes and zeros in the others, and the nonce grows with every
\* salt: after k salts it is k.
C32_SaltIsNonce ==
    /\ \A k \in 1..Len(salts) :
           salts[k] = [i \in 1..SaltLen |-> LittleEndianByte(k, i)]
    /\ last.tag # "Panic" => mocks.nonce = Len(salts)

\* The step registered transcoder t for address a: the registry holds it for a
\* and holds for every other address what it held, and a call to a is encoded
\* with t.
Registers(a, t) ==
    /\ transcoders'[a] = t
    /\ \A b \in Addresses \ {a} : transcoders'[b] = transcoders[b]
    /\ \A rq \in Requests :
           /\ (call_precheck(a, rq[1], rq[2]) = "")' <=> encode(t, rq[1], rq[2]).ok
           /\ (call_precheck(a, rq[1], rq[2]) = "")' =>
                  call_invocation(a, rq[1], rq[2])'.data = encode(t, rq[1], rq[2]).data

\* C33: the transcoder a call to an address is encoded with is the one registered
\* last for it, by set_transcoder or by a successful deploy that returned the
\* address, a later registration replacing an earlier one; a registration for one
\* address changes that of no other, and nothing but a set_transcoder or a
\* successful deploy changes a registration.
C33_LatestTranscoder ==
    [][/\ \A a \in Addresses, t \in TranscoderIds :
              /\ (last'.op = "set_transcoder" /\ set_result'.arg = <<(<<a, t>>)>>) =>
                     Registers(a, t)
              /\ (/\ last' = [op |-> "deploy", tag |-> "Ok"]
                  /\ record'.deploy_returns[Len(record'.deploy_returns)] = a
                  /\ history'[Len(history')].arg = t) => Registers(a, t)
       /\ (last'.op = "deploy" /\ last'.tag # "Ok") => transcoders' = transcoders
       /\ last'.op \notin {"deploy", "set_transcoder"} => transcoders' = transcoders]_vars

\* A set_transcoder for the address a deploy had returned, with another
\* transcoder than the deploy's: a message only the first declares is now refused.
C33_Witness ==
    /\ last.op = "set_transcoder"
    /\ Len(history) = 1
    /\ IsSuccessfulDeploy(history[1])
    /\ history[1].arg = "t1"
    /\ set_result.arg = <<(<<history[1].result.addr, "t2">>)>>
    /\ transcoders[history[1].result.addr] = "t2"
    /\ call_precheck(history[1].result.addr, "get", <<>>) = "Encoding"

ExecutionsOf(manifest_path) ==
    {i \in 1..Len(executions) : executions[i].manifest_path = manifest_path}

\* C34: however the build_contract_crate calls of the threads interleave,
\* contract_build::execute is called at most once for a manifest path, and every
\* caller that asks for that path is returned the same (package name, bundle
\* path) pair, the one the caller that built it was returned.
C34_BuiltOnce ==
    /\ \A manifest_path \in ManifestPaths : Cardinality(ExecutionsOf(manifest_path)) <= 1
    /\ \A r \in returns :
           \E b \in returns :
               /\ b.built
               /\ b.manifest_path = r.manifest_path
               /\ b.entry = r.entry
               /\ \A i \in ExecutionsOf(r.manifest_path) :
                      /\ executions[i].thread = b.thread
                      /\ b.entry[2] = executions[i].result.metadata_result[1].dest_bundle
    /\ \A r1, r2 \in returns : r1.manifest_path = r2.manifest_path => r1.entry = r2.entry

\* One thread built the contract of a manifest path while the other waited for
\* the mutex, and the other was returned the entry of the first.
C34_Witness ==
    \E b, r \in returns :
        /\ b.built /\ ~r.built
        /\ b.thread # r.thread
        /\ b.manifest_path = r.manifest_path
        /\ r.entry = b.entry
        /\ Cardinality(ExecutionsOf(b.manifest_path)) = 1
        /\ executions[Len(executions)].features # <<>>

Unchanged(field(_)) == field(app_state') = field(app_state)
ContractsOf(state) == state.contracts
DeployedContractsOf(state) == state.chain_info.deployed_contracts
CurrentContractOf(state) == state.ui_state.current_contract

\* C35: a successful deploy command adds one to deployed_contracts, pushes one
\* contract and makes it the current one; a deploy that reverts, fails at
\* dispatch or cannot load its blob or metadata leaves contracts,
\* deployed_contracts and current_contract as they were; so current_contract
\* indexes an existing contract once a deploy has succeeded, and a call before
\* any successful deploy reports "No deployed contract" without invoking the
\* sandbox.
C35_ExecutorBookkeeping ==
    /\ [](cli_last.deployed > 0 =>
              get(app_state.contracts, app_state.ui_state.current_contract) # <<>>)
    /\ [][/\ (cli_last'.command = "deploy" /\ cli_last'.outcome = "Ok") =>
                 /\ DeployedContractsOf(app_state') = DeployedContractsOf(app_state) + 1
                 /\ Len(app_state'.contracts) = Len(app_state.contracts) + 1
                 /\ SubSeq(app_state'.contracts, 1, Len(app_state.contracts))
                        = app_state.contracts
                 /\ CurrentContractOf(app_state') = Len(app_state'.contracts) - 1
                 /\ cli_sandbox' = cli_sandbox
                        \cup {app_state'.contracts[Len(app_state'.contracts)].address}
                 /\ cli_sandbox' # cli_sandbox
          /\ (cli_last'.command = "deploy" /\ cli_last'.outcome # "Ok") =>
                 /\ Unchanged(ContractsOf)
                 /\ Unchanged(DeployedContractsOf)
                 /\ Unchanged(CurrentContractOf)
          /\ (cli_last'.command = "call" /\ cli_last.deployed = 0) =>
                 /\ cli_last'.printed = <<"No deployed contract">>
                 /\ ~cli_last'.invoked]_vars

\* A second successful deploy within three commands: two contracts, the
\* second current.
C35_Witness ==
    /\ cli_last.command = "deploy"
    /\ cli_last.outcome = "Ok"
    /\ cli_last.deployed = 2
    /\ commands = 3
    /\ Len(app_state.contracts) = 2
    /\ app_state.chain_info.deployed_contracts = 2
    /\ app_state.ui_state.current_contract = 1

====
